---- MODULE Spec2Model ----
(***************************************************************************)
(* PFEP inventory analysis (src/quality.py, EnhancedPFEPInventoryAnalyzer). *)
(*                                                                         *)
(* The analysis pipeline is                                                *)
(*   match_inventory_data -> process_matched_data                          *)
(*        -> generate_detailed_report / create_enhanced_visualizations     *)
(*                                                                         *)
(* Representation choices:                                                 *)
(*  - Part numbers and descriptions are sequences of one-character         *)
(*    strings, so that str.upper() and str.strip() are computed.           *)
(*  - Quantities are Python floats in the source; here they are integers   *)
(*    (a fixed unit of quantity) and every quotient is an exact rational   *)
(*    [num, den], compared by cross multiplication.  Binary rounding of    *)
(*    the quotient is not modelled.                                        *)
(*  - A quotient whose divisor is zero is the value ZeroDivisionError      *)
(*    (Python raises); a call that computes one ends the pipeline in       *)
(*    pc = "error".                                                        *)
(***************************************************************************)
EXTENDS Integers, Sequences, FiniteSets, TLC

VARIABLES
    pc,              \* position in the pipeline
    pfep_data,       \* list of reference (PFEP) records
    current_data,    \* list of current-inventory records
    match_result,    \* what match_inventory_data returned
    tolerance,       \* tolerance handed to process_matched_data
    process_result,  \* what process_matched_data returned
    vendor_stats,    \* generate_detailed_report: report['vendor_analysis']
    vendor_data,     \* create_enhanced_visualizations: vendor_data
    arg,             \* argument of a call of a coercion or standardization
    ret,             \* what that call returned
    user_role,       \* st.session_state.user_role
    session_keys,    \* per data key of st.session_state: missing, None or a value
    matched_data,    \* st.session_state.matched_data when it is a value
    pfep_file,       \* what the file_uploader "pfep_upload" holds
    inventory_file,  \* what the file_uploader "inventory_upload" holds
    screen,          \* what the last run of the script rendered
    event,           \* what a Run Analysis click did in the last run
    locked           \* the advisory lock of each dataset

pipeline_vars == <<pc, pfep_data, current_data, match_result, tolerance,
                   process_result, vendor_stats, vendor_data>>

call_vars == <<arg, ret>>

session_vars == <<user_role, session_keys, matched_data, pfep_file, inventory_file,
                  screen, event>>

vars == <<pipeline_vars, call_vars, session_vars, locked>>

(***************************************************************************)
(* Bounds of the model.                                                    *)
(***************************************************************************)
MaxPfep == 2
MaxCurrent == 2
MaxQty == 12

(***************************************************************************)
(* Strings as character sequences.                                         *)
(***************************************************************************)
UpperAlpha ==
    <<"A", "B", "C", "D", "E", "F", "G", "H", "I", "J", "K", "L", "M",
      "N", "O", "P", "Q", "R", "S", "T", "U", "V", "W", "X", "Y", "Z">>

LowerAlpha ==
    <<"a", "b", "c", "d", "e", "f", "g", "h", "i", "j", "k", "l", "m",
      "n", "o", "p", "q", "r", "s", "t", "u", "v", "w", "x", "y", "z">>

UpperChar(c) ==
    IF \E k \in 1..Len(LowerAlpha) : LowerAlpha[k] = c
    THEN UpperAlpha[CHOOSE k \in 1..Len(LowerAlpha) : LowerAlpha[k] = c]
    ELSE c

Upper(s) == [i \in 1..Len(s) |-> UpperChar(s[i])]

RECURSIVE LStrip(_)
LStrip(s) == IF s # <<>> /\ Head(s) = " " THEN LStrip(Tail(s)) ELSE s

RECURSIVE RStrip(_)
RStrip(s) ==
    IF s # <<>> /\ s[Len(s)] = " " THEN RStrip(SubSeq(s, 1, Len(s) - 1)) ELSE s

Strip(s) == RStrip(LStrip(s))

\* item['Part_No'].upper().strip()
NormKey(s) == Strip(Upper(s))

(***************************************************************************)
(* Exact rationals standing for the float quotients.                       *)
(***************************************************************************)
Abs(n) == IF n < 0 THEN -n ELSE n

RECURSIVE GCD(_, _)
GCD(a, b) == IF b = 0 THEN a ELSE GCD(b, a % b)

ZeroDivisionError == [num |-> 0, den |-> 0]

\* n / d
Div(n, d) ==
    IF d = 0 THEN ZeroDivisionError
    ELSE LET g == GCD(Abs(n), Abs(d))
             s == IF d < 0 THEN -1 ELSE 1
         IN  [num |-> (s * n) \div g, den |-> (s * d) \div g]

FromInt(n) == [num |-> n, den |-> 1]

RatAdd(a, b) ==
    IF a.den = 0 \/ b.den = 0 THEN ZeroDivisionError
    ELSE Div(a.num * b.den + b.num * a.den, a.den * b.den)

RatDivInt(a, n) ==
    IF a.den = 0 THEN ZeroDivisionError ELSE Div(a.num, a.den * n)

RatAbs(a) == [num |-> Abs(a.num), den |-> a.den]

RatLE(a, b) == a.num * b.den <= b.num * a.den

RatLT(a, b) == a.num * b.den < b.num * a.den

(***************************************************************************)
(* calculate_variance and determine_status.                                *)
(***************************************************************************)
CalculateVarianceNoGuard(current_qty, rm_qty) ==
    [percent |-> Div((current_qty - rm_qty) * 100, rm_qty),
     absolute |-> current_qty - rm_qty,
     ratio |-> Div(current_qty, rm_qty)]

calculate_variance(current_qty, rm_qty) ==
    IF rm_qty = 0
    THEN [percent |-> FromInt(0), absolute |-> 0, ratio |-> FromInt(1)]
    ELSE [percent |-> Div((current_qty - rm_qty) * 100, rm_qty),
          absolute |-> current_qty - rm_qty,
          ratio |-> IF rm_qty # 0 THEN Div(current_qty, rm_qty) ELSE FromInt(1)]

DetermineStatusStrict(variance_percent, tol) ==
    IF RatLT(RatAbs(variance_percent), FromInt(tol)) THEN "Within Norms"
    ELSE IF RatLT(FromInt(0), variance_percent) THEN "Excess Inventory"
    ELSE "Short Inventory"

determine_status(variance_percent, tol) ==
    LET abs_variance == RatAbs(variance_percent)
    IN  IF RatLE(abs_variance, FromInt(tol)) THEN "Within Norms"
        ELSE IF RatLT(FromInt(tol), variance_percent)
             THEN IF RatLE(FromInt(tol * 2), variance_percent)
                  THEN "Excess Inventory"
                  ELSE "Excess Inventory"
             ELSE IF RatLE(FromInt(tol * 2), abs_variance)
                  THEN "Short Inventory"
                  ELSE "Short Inventory"

(***************************************************************************)
(* match_inventory_data.                                                   *)
(***************************************************************************)
EmptyDict == [k \in {} |-> k]

\* Lines 496-502: pfep_lookup[(part_no, desc)] = pfep_item, in list order.
RECURSIVE PfepLookupUpTo(_, _)
PfepLookupUpTo(pfep, n) ==
    IF n = 0 THEN EmptyDict
    ELSE LET pfep_item == pfep[n]
             part_no == NormKey(pfep_item.Part_No)
             desc == NormKey(pfep_item.Description)
             exact_key == <<part_no, desc>>
         IN  (exact_key :> pfep_item) @@ PfepLookupUpTo(pfep, n - 1)

pfep_lookup(pfep) == PfepLookupUpTo(pfep, Len(pfep))

\* Lines 496-505: pfep_by_part_no[part_no] = pfep_item, in list order.
RECURSIVE PfepByPartNoUpTo(_, _)
PfepByPartNoUpTo(pfep, n) ==
    IF n = 0 THEN EmptyDict
    ELSE LET pfep_item == pfep[n]
             part_no == NormKey(pfep_item.Part_No)
         IN  (part_no :> pfep_item) @@ PfepByPartNoUpTo(pfep, n - 1)

\* The same dictionary with an earlier entry kept instead of overwritten.
RECURSIVE PfepByPartNoFirstUpTo(_, _)
PfepByPartNoFirstUpTo(pfep, n) ==
    IF n = 0 THEN EmptyDict
    ELSE LET pfep_item == pfep[n]
             part_no == NormKey(pfep_item.Part_No)
         IN  PfepByPartNoFirstUpTo(pfep, n - 1) @@ (part_no :> pfep_item)

PfepByPartNoFirstWins(pfep) == PfepByPartNoFirstUpTo(pfep, Len(pfep))

pfep_by_part_no(pfep) == PfepByPartNoUpTo(pfep, Len(pfep))

NoMatch == [found |-> FALSE, match_type |-> "None"]

\* The same search with the two lookups tried in the other order.
FindPfepMatchPartFirst(lookup, by_part_no, current_item) ==
    LET current_part_no == NormKey(current_item.Part_No)
        current_desc == NormKey(current_item.Description)
        exact_key == <<current_part_no, current_desc>>
    IN  IF current_part_no \in DOMAIN by_part_no
        THEN [found |-> TRUE, pfep_match |-> by_part_no[current_part_no],
              match_type |-> "part_only"]
        ELSE IF exact_key \in DOMAIN lookup
        THEN [found |-> TRUE, pfep_match |-> lookup[exact_key],
              match_type |-> "exact"]
        ELSE NoMatch

\* Lines 511-528: the search for one inventory record.
FindPfepMatch(lookup, by_part_no, current_item) ==
    LET current_part_no == NormKey(current_item.Part_No)
        current_desc == NormKey(current_item.Description)
        exact_key == <<current_part_no, current_desc>>
    IN  IF exact_key \in DOMAIN lookup
        THEN [found |-> TRUE, pfep_match |-> lookup[exact_key],
              match_type |-> "exact"]
        ELSE IF current_part_no \in DOMAIN by_part_no
        THEN [found |-> TRUE, pfep_match |-> by_part_no[current_part_no],
              match_type |-> "part_only"]
        ELSE NoMatch

\* A matched_item without the fallback to the reference description.
MatchedItemOwnDescription(current_item, pfep_match, match_type) ==
    [Part_No |-> current_item.Part_No,
     Description |-> current_item.Description,
     Current_QTY |-> current_item.Current_QTY,
     RM_IN_QTY |-> pfep_match.RM_IN_QTY,
     Stock_Value |-> current_item.Stock_Value,
     Vendor_Code |-> pfep_match.Vendor_Code,
     Vendor_Name |-> pfep_match.Vendor_Name,
     City |-> pfep_match.City,
     State |-> pfep_match.State,
     Match_Type |-> match_type]

\* Lines 531-542.
MatchedItem(current_item, pfep_match, match_type) ==
    [Part_No |-> current_item.Part_No,
     Description |-> IF current_item.Description # <<>>
                     THEN current_item.Description
                     ELSE pfep_match.Description,
     Current_QTY |-> current_item.Current_QTY,
     RM_IN_QTY |-> pfep_match.RM_IN_QTY,
     Stock_Value |-> current_item.Stock_Value,
     Vendor_Code |-> pfep_match.Vendor_Code,
     Vendor_Name |-> pfep_match.Vendor_Name,
     City |-> pfep_match.City,
     State |-> pfep_match.State,
     Match_Type |-> match_type]

Bump(stats, key) == [stats EXCEPT ![key] = @ + 1]

\* The same step with the no_match counter left alone.
MatchStepNoCount(acc, m, current_item) ==
    IF m.found
    THEN [acc EXCEPT
            !.matched_data =
                Append(@, MatchedItem(current_item, m.pfep_match, m.match_type)),
            !.match_stats = Bump(@, m.match_type)]
    ELSE [acc EXCEPT !.unmatched_parts = Append(@, current_item)]

\* Lines 519-546: the effect of one loop iteration on the three results.
MatchStep(acc, m, current_item) ==
    IF m.found
    THEN [acc EXCEPT
            !.matched_data =
                Append(@, MatchedItem(current_item, m.pfep_match, m.match_type)),
            !.match_stats = Bump(@, m.match_type)]
    ELSE [acc EXCEPT
            !.unmatched_parts = Append(@, current_item),
            !.match_stats = Bump(@, "no_match")]

RECURSIVE MatchUpTo(_, _, _, _)
MatchUpTo(lookup, by_part_no, current, n) ==
    IF n = 0
    THEN [matched_data |-> <<>>,
          unmatched_parts |-> <<>>,
          match_stats |-> [exact |-> 0, part_only |-> 0, no_match |-> 0]]
    ELSE MatchStep(MatchUpTo(lookup, by_part_no, current, n - 1),
                   FindPfepMatch(lookup, by_part_no, current[n]),
                   current[n])

\* Returns (matched_data, unmatched_parts, match_stats).
match_inventory_data(pfep, current) ==
    MatchUpTo(pfep_lookup(pfep), pfep_by_part_no(pfep), current, Len(current))

(***************************************************************************)
(* process_matched_data.                                                   *)
(***************************************************************************)
Statuses == {"Within Norms", "Excess Inventory", "Short Inventory"}

\* sum(...) over a list of numbers, left to right
RECURSIVE SumUpTo(_, _)
SumUpTo(nums, n) == IF n = 0 THEN 0 ELSE SumUpTo(nums, n - 1) + nums[n]

\* The last number in place of the sum.
SumLast(nums) == IF nums = <<>> THEN 0 ELSE nums[Len(nums)]

Sum(nums) == SumUpTo(nums, Len(nums))

RmQtys(items) == [i \in 1..Len(items) |-> items[i].RM_IN_QTY]
CurrentQtys(items) == [i \in 1..Len(items) |-> items[i].Current_QTY]
StockValues(items) == [i \in 1..Len(items) |-> items[i].Stock_Value]

\* A processed_item whose Match_Type is taken from the tolerance.
ProcessedItemTolerantType(item, tol) ==
    [Part_No |-> item.Part_No,
     Description |-> item.Description,
     Current_QTY |-> item.Current_QTY,
     RM_IN_QTY |-> item.RM_IN_QTY,
     Variance_Percent |-> calculate_variance(item.Current_QTY, item.RM_IN_QTY).percent,
     Variance_Absolute |-> calculate_variance(item.Current_QTY, item.RM_IN_QTY).absolute,
     Variance_Ratio |-> calculate_variance(item.Current_QTY, item.RM_IN_QTY).ratio,
     Status |-> determine_status(
                    calculate_variance(item.Current_QTY, item.RM_IN_QTY).percent, tol),
     Stock_Value |-> item.Stock_Value,
     Vendor_Code |-> item.Vendor_Code,
     Vendor_Name |-> item.Vendor_Name,
     City |-> item.City,
     State |-> item.State,
     Match_Type |-> IF tol > 30 THEN "unknown" ELSE item.Match_Type]

\* Lines 593-619: one processed_item.
ProcessedItem(item, tol) ==
    LET current_qty == item.Current_QTY
        rm_qty == item.RM_IN_QTY
        stock_value == item.Stock_Value
        variance == calculate_variance(current_qty, rm_qty)
        status == determine_status(variance.percent, tol)
    IN  [Part_No |-> item.Part_No,
         Description |-> item.Description,
         Current_QTY |-> current_qty,
         RM_IN_QTY |-> rm_qty,
         Variance_Percent |-> variance.percent,
         Variance_Absolute |-> variance.absolute,
         Variance_Ratio |-> variance.ratio,
         Status |-> status,
         Stock_Value |-> stock_value,
         Vendor_Code |-> item.Vendor_Code,
         Vendor_Name |-> item.Vendor_Name,
         City |-> item.City,
         State |-> item.State,
         Match_Type |-> item.Match_Type]

\* Lines 583-587.
SummarySeed ==
    [s \in Statuses |-> [count |-> 0, value |-> 0, qty_variance |-> 0]]

\* The same update with the value bucket left alone.
SummaryAddNoValue(summary, p) ==
    [summary EXCEPT ![p.Status] =
        [count |-> @.count + 1,
         value |-> @.value,
         qty_variance |-> @.qty_variance + p.Variance_Absolute]]

\* Lines 623-625.
SummaryAdd(summary, p) ==
    [summary EXCEPT ![p.Status] =
        [count |-> @.count + 1,
         value |-> @.value + p.Stock_Value,
         qty_variance |-> @.qty_variance + p.Variance_Absolute]]

RECURSIVE SummaryUpTo(_, _)
SummaryUpTo(processed, n) ==
    IF n = 0 THEN SummarySeed
    ELSE SummaryAdd(SummaryUpTo(processed, n - 1), processed[n])

RECURSIVE RatSumPercent(_, _)
RatSumPercent(processed, n) ==
    IF n = 0 THEN FromInt(0)
    ELSE RatAdd(RatSumPercent(processed, n - 1), processed[n].Variance_Percent)

\* The same metrics without the guard on the denominator.
OverallMetricsNoGuard(matched, processed) ==
    LET total_rm_qty == Sum(RmQtys(matched))
        total_current_qty == Sum(CurrentQtys(matched))
    IN  [total_parts |-> Len(processed),
         total_rm_qty |-> total_rm_qty,
         total_current_qty |-> total_current_qty,
         overall_variance_percent |->
             Div((total_current_qty - total_rm_qty) * 100, total_rm_qty),
         total_stock_value |-> Sum(StockValues(processed)),
         avg_variance |->
             IF processed # <<>>
             THEN RatDivInt(RatSumPercent(processed, Len(processed)), Len(processed))
             ELSE FromInt(0)]

\* Lines 589-590 and 628-635.
OverallMetrics(matched, processed) ==
    LET total_rm_qty == Sum(RmQtys(matched))
        total_current_qty == Sum(CurrentQtys(matched))
    IN  [total_parts |-> Len(processed),
         total_rm_qty |-> total_rm_qty,
         total_current_qty |-> total_current_qty,
         overall_variance_percent |->
             IF total_rm_qty > 0
             THEN Div((total_current_qty - total_rm_qty) * 100, total_rm_qty)
             ELSE FromInt(0),
         total_stock_value |-> Sum(StockValues(processed)),
         avg_variance |->
             IF processed # <<>>
             THEN RatDivInt(RatSumPercent(processed, Len(processed)), Len(processed))
             ELSE FromInt(0)]

\* A division by zero anywhere in process_matched_data raises out of it.
ProcessRaises(matched, tol) ==
    \/ \E i \in 1..Len(matched) :
          LET v == calculate_variance(matched[i].Current_QTY, matched[i].RM_IN_QTY)
          IN  v.percent = ZeroDivisionError \/ v.ratio = ZeroDivisionError
    \/ LET processed == [i \in 1..Len(matched) |-> ProcessedItem(matched[i], tol)]
           m == OverallMetrics(matched, processed)
       IN  \/ m.overall_variance_percent = ZeroDivisionError
           \/ m.avg_variance = ZeroDivisionError

\* Returns (processed_data, summary_data, overall_metrics).
process_matched_data(matched, tol) ==
    LET processed == [i \in 1..Len(matched) |-> ProcessedItem(matched[i], tol)]
    IN  [processed_data |-> processed,
         summary_data |-> SummaryUpTo(processed, Len(processed)),
         overall_metrics |-> OverallMetrics(matched, processed)]

(***************************************************************************)
(* generate_detailed_report (vendor analysis) and                          *)
(* create_enhanced_visualizations (vendor_data).                           *)
(***************************************************************************)
\* Line 671: item['Vendor_Name'] or item['Vendor_Code']
ReportVendorKey(item) ==
    IF item.Vendor_Name # "" THEN item.Vendor_Name ELSE item.Vendor_Code

\* Line 761: item['Vendor_Name'] or item['Vendor_Code'] or 'Unknown'
ChartVendorKey(item) ==
    IF item.Vendor_Name # "" THEN item.Vendor_Name
    ELSE IF item.Vendor_Code # "" THEN item.Vendor_Code
    ELSE "Unknown"

StatusSeed == [s \in Statuses |-> 0]

\* Lines 669-683.
RECURSIVE VendorStatsUpTo(_, _)
VendorStatsUpTo(processed, n) ==
    IF n = 0 THEN EmptyDict
    ELSE LET item == processed[n]
             prev == VendorStatsUpTo(processed, n - 1)
             vendor == ReportVendorKey(item)
             seeded == IF vendor \in DOMAIN prev THEN prev
                       ELSE prev @@ (vendor :>
                              [total_parts |-> 0, total_value |-> 0,
                               statuses |-> StatusSeed])
         IN  [seeded EXCEPT ![vendor] =
                [total_parts |-> @.total_parts + 1,
                 total_value |-> @.total_value + item.Stock_Value,
                 statuses |-> [@.statuses EXCEPT ![item.Status] = @ + 1]]]

generate_detailed_report(processed) ==
    [vendor_analysis |-> VendorStatsUpTo(processed, Len(processed))]

\* Lines 759-764.
RECURSIVE VendorDataUpTo(_, _)
VendorDataUpTo(processed, n) ==
    IF n = 0 THEN EmptyDict
    ELSE LET item == processed[n]
             prev == VendorDataUpTo(processed, n - 1)
             vendor == ChartVendorKey(item)
             seeded == IF vendor \in DOMAIN prev THEN prev
                       ELSE prev @@ (vendor :> StatusSeed)
         IN  [seeded EXCEPT ![vendor] = [@ EXCEPT ![item.Status] = @ + 1]]

create_enhanced_visualizations(processed) ==
    VendorDataUpTo(processed, Len(processed))

(***************************************************************************)
(* Inputs.  The records follow the sample rows of load_sample_pfep_data    *)
(* and load_sample_current_inventory, reduced to the cases that matter:    *)
(* part numbers equal up to case and padding, descriptions equal up to     *)
(* case or absent, a zero target, an empty vendor name, no vendor at all.  *)
(***************************************************************************)
PfepItem(part_no, description, rm, code, name, city, state) ==
    [Part_No |-> part_no, Description |-> description, RM_IN_QTY |-> rm,
     Vendor_Code |-> code, Vendor_Name |-> name, City |-> city, State |-> state]

PfepItems ==
    {PfepItem(<<"A">>, <<"X">>, 10, "V001", "Vendor_A", "Mumbai", "Maharashtra"),
     PfepItem(<<"a", " ">>, <<"X">>, 4, "V002", "", "Delhi", "Delhi"),
     PfepItem(<<"A">>, <<>>, 0, "", "", "", ""),
     PfepItem(<<"a", " ">>, <<>>, 20, "V001", "Vendor_A", "Mumbai", "Maharashtra"),
     PfepItem(<<"B">>, <<"X">>, 0, "V002", "Vendor_B", "Delhi", "Delhi"),
     PfepItem(<<"B">>, <<>>, 10, "", "", "", "")}

CurrentItem(part_no, description, qty, value) ==
    [Part_No |-> part_no, Description |-> description,
     Current_QTY |-> qty, Stock_Value |-> value]

CurrentItems ==
    {CurrentItem(<<"a">>, <<"x">>, 13, 100),
     CurrentItem(<<"a">>, <<>>, 7, 50),
     CurrentItem(<<"b", " ">>, <<"x">>, 0, 0),
     CurrentItem(<<"B">>, <<"y">>, 5, 30),
     CurrentItem(<<"C">>, <<"x">>, 9, 70)}

SeqsUpTo(S, n) == UNION {[1..k -> S] : k \in 0..n}

\* The selectbox options of lines 1126 and 1186.
Tolerances == {10, 20, 30, 40, 50}

\* determine_status itself accepts any tolerance >= 0.
ClassifyTolerances == {0, 5, 10, 20, 30, 40, 50}

(***************************************************************************)
(* The pipeline as a state machine.                                        *)
(***************************************************************************)
Unset == <<>>

\* No session is part of the run.
NoSession ==
    /\ user_role = "None"
    /\ session_keys = [pfep_data |-> "missing", current_data |-> "missing",
                       matched_data |-> "missing"]
    /\ matched_data = Unset
    /\ pfep_file = Unset
    /\ inventory_file = Unset
    /\ screen = Unset
    /\ event = Unset
    /\ locked = Unset

Init ==
    /\ pc = "loaded"
    /\ pfep_data \in SeqsUpTo(PfepItems, MaxPfep)
    /\ current_data \in SeqsUpTo(CurrentItems, MaxCurrent)
    /\ match_result = Unset
    /\ tolerance = 30
    /\ process_result = Unset
    /\ vendor_stats = Unset
    /\ vendor_data = Unset
    /\ arg = Unset
    /\ ret = Unset
    /\ NoSession

MatchInventoryData ==
    /\ pc = "loaded"
    /\ match_result' = match_inventory_data(pfep_data, current_data)
    /\ pc' = "matched"
    /\ UNCHANGED <<pfep_data, current_data, tolerance, process_result,
                   vendor_stats, vendor_data>>
    /\ UNCHANGED <<call_vars, session_vars, locked>>

ProcessMatchedData(tol) ==
    /\ pc = "matched"
    /\ tolerance' = tol
    /\ IF ProcessRaises(match_result.matched_data, tol)
       THEN pc' = "error" /\ UNCHANGED process_result
       ELSE /\ process_result' =
                  process_matched_data(match_result.matched_data, tol)
            /\ pc' = "processed"
    /\ UNCHANGED <<pfep_data, current_data, match_result, vendor_stats,
                   vendor_data>>
    /\ UNCHANGED <<call_vars, session_vars, locked>>

GenerateDetailedReport ==
    /\ pc = "processed"
    /\ vendor_stats' =
          generate_detailed_report(process_result.processed_data).vendor_analysis
    /\ pc' = "reported"
    /\ UNCHANGED <<pfep_data, current_data, match_result, tolerance,
                   process_result, vendor_data>>
    /\ UNCHANGED <<call_vars, session_vars, locked>>

CreateEnhancedVisualizations ==
    /\ pc = "processed"
    /\ vendor_data' = create_enhanced_visualizations(process_result.processed_data)
    /\ pc' = "charted"
    /\ UNCHANGED <<pfep_data, current_data, match_result, tolerance,
                   process_result, vendor_stats>>
    /\ UNCHANGED <<call_vars, session_vars, locked>>

ProcessAtTolerance == \E tol \in Tolerances : ProcessMatchedData(tol)

Next ==
    \/ MatchInventoryData
    \/ ProcessAtTolerance
    \/ GenerateDetailedReport
    \/ CreateEnhancedVisualizations

Spec == Init /\ [][Next]_vars

(***************************************************************************)
(* The classifier on its whole input range: one inventory record joined to *)
(* one reference record, every pair of quantities, every tolerance.        *)
(***************************************************************************)
InitClassify ==
    /\ pc = "loaded"
    /\ \E rm \in 0..MaxQty :
          pfep_data = <<PfepItem(<<"A">>, <<"X">>, rm, "V001", "Vendor_A",
                                 "Mumbai", "Maharashtra")>>
    /\ \E qty \in 0..MaxQty :
          current_data = <<CurrentItem(<<"A">>, <<"X">>, qty, 100)>>
    /\ match_result = Unset
    /\ tolerance = 30
    /\ process_result = Unset
    /\ vendor_stats = Unset
    /\ vendor_data = Unset
    /\ arg = Unset
    /\ ret = Unset
    /\ NoSession

ClassifyAtTolerance == \E tol \in ClassifyTolerances : ProcessMatchedData(tol)

NextClassify ==
    \/ MatchInventoryData
    \/ ClassifyAtTolerance

SpecClassify == InitClassify /\ [][NextClassify]_vars

(***************************************************************************)
(* process_matched_data called again on the matcher's output: arg and ret  *)
(* keep the tolerance and the result of the call before.                   *)
(***************************************************************************)
ReclassifyPfep ==
    {<<PfepItem(<<"A">>, <<"X">>, 10, "V001", "Vendor_A", "Mumbai", "Maharashtra"),
       PfepItem(<<"B">>, <<>>, 10, "", "", "", "")>>,
     <<PfepItem(<<"a", " ">>, <<"X">>, 4, "V002", "", "Delhi", "Delhi"),
       PfepItem(<<"B">>, <<"X">>, 0, "V002", "Vendor_B", "Delhi", "Delhi")>>}

InitReclassify ==
    /\ pc = "loaded"
    /\ pfep_data \in ReclassifyPfep
    /\ current_data \in SeqsUpTo(CurrentItems, MaxCurrent)
    /\ match_result = Unset
    /\ tolerance = 30
    /\ process_result = Unset
    /\ vendor_stats = Unset
    /\ vendor_data = Unset
    /\ arg = Unset
    /\ ret = Unset
    /\ NoSession

ProcessMatchedDataAgain(tol) ==
    /\ pc = "processed"
    /\ arg' = tolerance
    /\ ret' = process_result
    /\ tolerance' = tol
    /\ IF ProcessRaises(match_result.matched_data, tol)
       THEN pc' = "error" /\ UNCHANGED process_result
       ELSE /\ process_result' =
                  process_matched_data(match_result.matched_data, tol)
            /\ pc' = "processed"
    /\ UNCHANGED <<pfep_data, current_data, match_result, vendor_stats,
                   vendor_data>>
    /\ UNCHANGED <<session_vars, locked>>

NextReclassify ==
    \/ MatchInventoryData
    \/ ProcessAtTolerance
    \/ \E tol \in Tolerances : ProcessMatchedDataAgain(tol)

SpecReclassify == InitReclassify /\ [][NextReclassify]_vars

(***************************************************************************)
(* The aggregation on the matched list in another order: arg is the list   *)
(* as it is passed, ret what process_matched_data and the vendor analysis  *)
(* of generate_detailed_report return for it.                              *)
(***************************************************************************)
Orders(n) ==
    {f \in [1..n -> 1..n] : \A i, j \in 1..n : f[i] = f[j] => i = j}

ProcessPermuted ==
    /\ pc = "processed"
    /\ \E f \in Orders(Len(match_result.matched_data)) :
       \E matched \in {[i \in DOMAIN f |-> match_result.matched_data[f[i]]]} :
       \E p \in {process_matched_data(matched, tolerance)} :
          /\ arg' = matched
          /\ ret' = [summary_data |-> p.summary_data,
                     overall_metrics |-> p.overall_metrics,
                     vendor_analysis |->
                         generate_detailed_report(p.processed_data).vendor_analysis]
    /\ UNCHANGED <<pipeline_vars, session_vars, locked>>

NextPermute ==
    \/ MatchInventoryData
    \/ ProcessAtTolerance
    \/ ProcessPermuted

SpecPermute == InitReclassify /\ [][NextPermute]_vars

(***************************************************************************)
(* Cell values of an uploaded table, and safe_float_convert /              *)
(* safe_int_convert.  A float is an exact rational or NaN.                 *)
(***************************************************************************)
MaxStr == 3

NoneVal == [kind |-> "None"]

StrVal(s) == [kind |-> "str", s |-> s]

IntVal(n) == [kind |-> "int", val |-> n]

FloatVal(r) == [kind |-> "float", nan |-> FALSE, val |-> r]

NaN == [kind |-> "float", nan |-> TRUE, val |-> FromInt(0)]

\* pd.isna(value)
IsNa(value) == value.kind = "None" \/ (value.kind = "float" /\ value.nan)

LowerChar(c) ==
    IF \E k \in 1..Len(UpperAlpha) : UpperAlpha[k] = c
    THEN LowerAlpha[CHOOSE k \in 1..Len(UpperAlpha) : UpperAlpha[k] = c]
    ELSE c

Lower(s) == [i \in 1..Len(s) |-> LowerChar(s[i])]

\* s.replace(c, '') for every c of chars
Remove(s, chars) == LET Keep(c) == c \notin chars IN SelectSeq(s, Keep)

DigitChars == <<"0", "1", "2", "3", "4", "5", "6", "7", "8", "9">>

IsDigit(c) == \E d \in 1..Len(DigitChars) : DigitChars[d] = c

DigitValue(c) == (CHOOSE d \in 1..Len(DigitChars) : DigitChars[d] = c) - 1

RECURSIVE DigitsValue(_)
DigitsValue(s) ==
    IF s = <<>> THEN 0
    ELSE DigitsValue(SubSeq(s, 1, Len(s) - 1)) * 10 + DigitValue(s[Len(s)])

RECURSIVE Pow10(_)
Pow10(n) == IF n = 0 THEN 1 ELSE 10 * Pow10(n - 1)

RECURSIVE NatToStr(_)
NatToStr(n) ==
    IF n < 10 THEN <<DigitChars[n + 1]>>
    ELSE NatToStr(n \div 10) \o <<DigitChars[(n % 10) + 1]>>

IntToStr(n) == IF n < 0 THEN <<"-">> \o NatToStr(-n) ELSE NatToStr(n)

\* str(value): a string is itself, an int its decimal digits, a whole float
\* its digits followed by ".0".
PyStr(value) ==
    CASE value.kind = "str" -> value.s
      [] value.kind = "int" -> IntToStr(value.val)
      [] value.kind = "float" /\ value.nan -> <<"n", "a", "n">>
      [] value.kind = "float" /\ ~value.nan ->
            IntToStr(value.val.num \div value.val.den) \o <<".", "0">>
      [] OTHER -> <<"N", "o", "n", "e">>

ValueError == [ok |-> FALSE, nan |-> FALSE, val |-> FromInt(0)]

\* A value computed once, then handed to Rest.
Then(value, Rest(_)) == CHOOSE y \in {Rest(x) : x \in {value}} : TRUE

\* float(s) of Python on the characters of the model: an optional sign, then
\* "nan" in any case, or digits with at most one point and at least one digit.
\* Anything else is ValueError.
PyFloat(s) ==
    Then(Strip(s), LAMBDA t :
    Then(IF t # <<>> /\ t[1] \in {"-", "+"} THEN Tail(t) ELSE t, LAMBDA body :
    Then(Remove(body, {"."}), LAMBDA digits :
    Then({i \in 1..Len(body) : body[i] = "."}, LAMBDA dots :
        IF Lower(body) = <<"n", "a", "n">>
        THEN [ok |-> TRUE, nan |-> TRUE, val |-> FromInt(0)]
        ELSE IF /\ digits # <<>>
                /\ \A i \in 1..Len(digits) : IsDigit(digits[i])
                /\ Cardinality(dots) <= 1
        THEN Then(Div(DigitsValue(digits),
                      Pow10(IF dots = {} THEN 0
                            ELSE Len(body) - (CHOOSE i \in dots : TRUE))),
                  LAMBDA mag :
                      [ok |-> TRUE, nan |-> FALSE,
                       val |-> IF t[1] = "-"
                               THEN [mag EXCEPT !.num = -mag.num]
                               ELSE mag])
        ELSE ValueError))))

\* Lines 220-221: a trailing "%" is dropped.
Unpercent(cleaned) ==
    IF cleaned # <<>> /\ cleaned[Len(cleaned)] = "%"
    THEN SubSeq(cleaned, 1, Len(cleaned) - 1)
    ELSE cleaned

\* Lines 223-225: "(x)" becomes "-x".
Unparen(unpercent) ==
    IF /\ unpercent # <<>>
       /\ unpercent[1] = "("
       /\ unpercent[Len(unpercent)] = ")"
    THEN <<"-">> \o SubSeq(unpercent, 2, Len(unpercent) - 1)
    ELSE unpercent

\* Lines 210-230.  The currency glyphs are all removed by the same replace;
\* "$" stands for them.
safe_float_convert(value) ==
    IF IsNa(value) \/ (value.kind = "str" /\ value.s = <<>>)
    THEN FloatVal(FromInt(0))
    ELSE Then(PyFloat(Unparen(Unpercent(
                  Remove(Strip(PyStr(value)), {",", " ", "$"})))),
              LAMBDA parsed :
                  IF ~parsed.ok THEN FloatVal(FromInt(0))
                  ELSE IF parsed.nan THEN NaN
                  ELSE FloatVal(parsed.val))

\* int(x) of a float truncates toward zero and raises ValueError on NaN.
Raise(exc) == [kind |-> "raise", exc |-> exc]

Trunc(r) ==
    IF r.num < 0 THEN -((-r.num) \div r.den) ELSE r.num \div r.den

\* Lines 232-234: no try around the int().
safe_int_convert(value) ==
    Then(safe_float_convert(value),
         LAMBDA f : IF f.nan THEN Raise("ValueError") ELSE IntVal(Trunc(f.val)))

CellChars == {"1", "5", ".", "-", "(", ")", ",", "$", "%", " ", "n", "a"}

CoerceInputs ==
    {NoneVal, NaN, IntVal(0), IntVal(30), IntVal(-4), FloatVal(FromInt(4))}
        \cup {StrVal(s) : s \in SeqsUpTo(CellChars, MaxStr)}

InitCoerce ==
    /\ pc = "call"
    /\ pfep_data = <<>>
    /\ current_data = <<>>
    /\ match_result = Unset
    /\ tolerance = 30
    /\ process_result = Unset
    /\ vendor_stats = Unset
    /\ vendor_data = Unset
    /\ arg \in CoerceInputs
    /\ ret = Unset
    /\ NoSession

SafeFloatConvert ==
    /\ pc = "call"
    /\ pc' = "returned"
    /\ ret' = [fn |-> "safe_float_convert", value |-> safe_float_convert(arg)]
    /\ UNCHANGED <<pfep_data, current_data, match_result, tolerance,
                   process_result, vendor_stats, vendor_data, arg>>
    /\ UNCHANGED <<session_vars, locked>>

SafeIntConvert ==
    /\ pc = "call"
    /\ pc' = "returned"
    /\ ret' = [fn |-> "safe_int_convert", value |-> safe_int_convert(arg)]
    /\ UNCHANGED <<pfep_data, current_data, match_result, tolerance,
                   process_result, vendor_stats, vendor_data, arg>>
    /\ UNCHANGED <<session_vars, locked>>

NextCoerce ==
    \/ SafeFloatConvert
    \/ SafeIntConvert

SpecCoerce == InitCoerce /\ [][NextCoerce]_vars

(***************************************************************************)
(* Uploaded tables: validate_file_format, column resolution and the two    *)
(* standardizers.                                                          *)
(***************************************************************************)
MaxRows == 2

\* A DataFrame: the column names and, per row, one cell per column.
DataFrame(columns, rows) ==
    [kind |-> "DataFrame", columns |-> columns, rows |-> rows]

\* df.empty
Empty(df) == Len(df.rows) = 0 \/ Len(df.columns) = 0

\* df.isnull()
NullCells(df) ==
    {c \in (1..Len(df.rows)) \X (1..Len(df.columns)) :
        IsNa(df.rows[c[1]][c[2]])}

\* df.columns[df.isnull().all()]
EmptyCols(df) ==
    {j \in 1..Len(df.columns) :
        \A i \in 1..Len(df.rows) : IsNa(df.rows[i][j])}

\* Lines 305-331: (is_valid, message); the issues found are kept apart from
\* the fixed text of the message.
validate_file_format(df) ==
    IF df.kind = "None" \/ Empty(df)
    THEN [is_valid |-> FALSE, message |-> "File is empty or could not be read",
          issues |-> {}]
    ELSE IF Len(df.rows) = 0
    THEN [is_valid |-> FALSE, message |-> "No data rows found in file",
          issues |-> {}]
    ELSE IF Len(df.columns) < 2
    THEN [is_valid |-> FALSE, message |-> "File must have at least 2 columns",
          issues |-> {}]
    ELSE LET issues ==
                 (IF EmptyCols(df) # {} THEN {"Empty columns found"} ELSE {})
                 \cup
                 (IF 2 * Cardinality(NullCells(df))
                        > Len(df.rows) * Len(df.columns)
                  THEN {"More than 50% of data is missing"} ELSE {})
         IN  IF issues # {}
             THEN [is_valid |-> FALSE, message |-> "Data quality issues",
                   issues |-> issues]
             ELSE [is_valid |-> TRUE,
                   message |-> "File format validated successfully",
                   issues |-> {}]

\* column_mappings of standardize_pfep_data (lines 345-353).
PfepColumnMappings ==
    [part_no |->
         <<<<"p", "a", "r", "t", "_", "n", "o">>,
         <<"p", "a", "r", "t", "_", "n", "u", "m", "b", "e", "r">>,
         <<"m", "a", "t", "e", "r", "i", "a", "l">>,
         <<"m", "a", "t", "e", "r", "i", "a", "l", "_", "c", "o", "d", "e">>,
         <<"i", "t", "e", "m", "_", "c", "o", "d", "e">>,
         <<"c", "o", "d", "e">>,
         <<"p", "a", "r", "t", " ", "n", "o">>,
         <<"p", "a", "r", "t", "n", "o">>>>,
     description |->
         <<<<"d", "e", "s", "c", "r", "i", "p", "t", "i", "o", "n">>,
         <<"i", "t", "e", "m", "_", "d", "e", "s", "c", "r", "i", "p", "t", "i", "o", "n">>,
         <<"p", "a", "r", "t", "_", "d", "e", "s", "c", "r", "i", "p", "t", "i", "o", "n">>,
         <<"d", "e", "s", "c">>,
         <<"p", "a", "r", "t", " ", "d", "e", "s", "c", "r", "i", "p", "t", "i", "o", "n">>,
         <<"m", "a", "t", "e", "r", "i", "a", "l", "_", "d", "e", "s", "c", "r", "i", "p", "t", "i", "o", "n">>,
         <<"i", "t", "e", "m", " ", "d", "e", "s", "c">>>>,
     rm_qty |->
         <<<<"r", "m", "_", "i", "n", "_", "q", "t", "y">>,
         <<"r", "m", "_", "q", "t", "y">>,
         <<"r", "e", "q", "u", "i", "r", "e", "d", "_", "q", "t", "y">>,
         <<"n", "o", "r", "m", "_", "q", "t", "y">>,
         <<"t", "a", "r", "g", "e", "t", "_", "q", "t", "y">>,
         <<"r", "m">>,
         <<"r", "i", "_", "i", "n", "_", "q", "t", "y">>,
         <<"r", "m", " ", "i", "n", " ", "q", "t", "y">>>>,
     vendor_code |->
         <<<<"v", "e", "n", "d", "o", "r", "_", "c", "o", "d", "e">>,
         <<"v", "e", "n", "d", "o", "r", "_", "i", "d">>,
         <<"s", "u", "p", "p", "l", "i", "e", "r", "_", "c", "o", "d", "e">>,
         <<"s", "u", "p", "p", "l", "i", "e", "r", "_", "i", "d">>,
         <<"v", "e", "n", "d", "o", "r", " ", "i", "d">>>>,
     vendor_name |->
         <<<<"v", "e", "n", "d", "o", "r", "_", "n", "a", "m", "e">>,
         <<"v", "e", "n", "d", "o", "r">>,
         <<"s", "u", "p", "p", "l", "i", "e", "r", "_", "n", "a", "m", "e">>,
         <<"s", "u", "p", "p", "l", "i", "e", "r">>,
         <<"v", "e", "n", "d", "o", "r", " ", "n", "a", "m", "e">>>>,
     city |->
         <<<<"c", "i", "t", "y">>,
         <<"v", "e", "n", "d", "o", "r", "_", "c", "i", "t", "y">>,
         <<"s", "u", "p", "p", "l", "i", "e", "r", "_", "c", "i", "t", "y">>,
         <<"l", "o", "c", "a", "t", "i", "o", "n">>>>,
     state |->
         <<<<"s", "t", "a", "t", "e">>,
         <<"v", "e", "n", "d", "o", "r", "_", "s", "t", "a", "t", "e">>,
         <<"s", "u", "p", "p", "l", "i", "e", "r", "_", "s", "t", "a", "t", "e">>,
         <<"r", "e", "g", "i", "o", "n">>>>]

\* column_mappings of standardize_current_inventory (lines 426-431).
InventoryColumnMappings ==
    [part_no |->
         <<<<"p", "a", "r", "t", "_", "n", "o">>,
         <<"p", "a", "r", "t", "_", "n", "u", "m", "b", "e", "r">>,
         <<"m", "a", "t", "e", "r", "i", "a", "l">>,
         <<"m", "a", "t", "e", "r", "i", "a", "l", "_", "c", "o", "d", "e">>,
         <<"i", "t", "e", "m", "_", "c", "o", "d", "e">>,
         <<"c", "o", "d", "e">>,
         <<"p", "a", "r", "t", " ", "n", "o">>,
         <<"p", "a", "r", "t", "n", "o">>>>,
     description |->
         <<<<"d", "e", "s", "c", "r", "i", "p", "t", "i", "o", "n">>,
         <<"i", "t", "e", "m", "_", "d", "e", "s", "c", "r", "i", "p", "t", "i", "o", "n">>,
         <<"p", "a", "r", "t", "_", "d", "e", "s", "c", "r", "i", "p", "t", "i", "o", "n">>,
         <<"d", "e", "s", "c">>,
         <<"p", "a", "r", "t", " ", "d", "e", "s", "c", "r", "i", "p", "t", "i", "o", "n">>,
         <<"m", "a", "t", "e", "r", "i", "a", "l", "_", "d", "e", "s", "c", "r", "i", "p", "t", "i", "o", "n">>>>,
     current_qty |->
         <<<<"c", "u", "r", "r", "e", "n", "t", "_", "q", "t", "y">>,
         <<"q", "t", "y">>,
         <<"q", "u", "a", "n", "t", "i", "t", "y">>,
         <<"s", "t", "o", "c", "k", "_", "q", "t", "y">>,
         <<"o", "n", "_", "h", "a", "n", "d", "_", "q", "t", "y">>,
         <<"c", "u", "r", "r", "e", "n", "t", " ", "q", "u", "a", "n", "t", "i", "t", "y">>,
         <<"c", "u", "r", "r", "e", "n", "t", " ", "q", "t", "y">>>>,
     stock_value |->
         <<<<"s", "t", "o", "c", "k", "_", "v", "a", "l", "u", "e">>,
         <<"v", "a", "l", "u", "e">>,
         <<"a", "m", "o", "u", "n", "t">>,
         <<"c", "o", "s", "t">>,
         <<"i", "n", "v", "e", "n", "t", "o", "r", "y", "_", "v", "a", "l", "u", "e">>,
         <<"t", "o", "t", "a", "l", "_", "v", "a", "l", "u", "e">>,
         <<"s", "t", "o", "c", "k", " ", "v", "a", "l", "u", "e">>>>]

\* col.lower().strip().replace(' ', '_').replace('-', '_'), hyphens left alone
NormalizeColumnNoHyphen(col) ==
    LET t == Strip(Lower(col))
    IN  [k \in 1..Len(t) |-> IF t[k] = " " THEN "_" ELSE t[k]]

\* Lines 356 and 361: col.lower().strip().replace(' ', '_').replace('-', '_')
NormalizeColumn(col) ==
    LET t == Strip(Lower(col))
    IN  [k \in 1..Len(t) |-> IF t[k] \in {" ", "-"} THEN "_" ELSE t[k]]

\* Line 356: a dict comprehension, so of two columns with one normalized
\* name the later one stays.
normalized_columns(df) ==
    LET names == {NormalizeColumn(df.columns[j]) : j \in 1..Len(df.columns)}
    IN  [n \in names |->
            df.columns[CHOOSE j \in 1..Len(df.columns) :
                          /\ NormalizeColumn(df.columns[j]) = n
                          /\ \A l \in 1..Len(df.columns) :
                                NormalizeColumn(df.columns[l]) = n => l <= j]]

\* Lines 359-364: the loop over possible_names from position k on; normalized
\* is the dict normalized_columns.
RECURSIVE FindBestColumnFrom(_, _, _)
FindBestColumnFrom(possible_names, k, normalized) ==
    IF k > Len(possible_names) THEN NoneVal
    ELSE IF NormalizeColumn(possible_names[k]) \in DOMAIN normalized
    THEN StrVal(normalized[NormalizeColumn(possible_names[k])])
    ELSE FindBestColumnFrom(possible_names, k + 1, normalized)

find_best_column(possible_names, normalized) ==
    FindBestColumnFrom(possible_names, 1, normalized)

\* Lines 356-368
mapped_columns(column_mappings, df) ==
    Then(normalized_columns(df),
         LAMBDA normalized :
             [key \in DOMAIN column_mappings |->
                 find_best_column(column_mappings[key], normalized)])

\* Truth value of a column name or None
Truthy(v) == v.kind = "str" /\ v.s # <<>>

MissingRequiredPartOnly(mapped, qty_key, qty_label) ==
    IF ~Truthy(mapped.part_no) THEN <<"Part Number">> ELSE <<>>

\* Lines 371-375 and 448-452
MissingRequired(mapped, qty_key, qty_label) ==
    (IF ~Truthy(mapped.part_no) THEN <<"Part Number">> ELSE <<>>)
        \o (IF ~Truthy(mapped[qty_key]) THEN <<qty_label>> ELSE <<>>)

\* record.get(col, default)
Get(df, i, col, default) ==
    IF col.kind = "str" /\ \E j \in 1..Len(df.columns) : df.columns[j] = col.s
    THEN df.rows[i][CHOOSE j \in 1..Len(df.columns) : df.columns[j] = col.s]
    ELSE default

\* str(record.get(col, '')).strip()
CellText(df, i, col) == Strip(PyStr(Get(df, i, col, StrVal(<<>>))))

\* The pipeline holds vendor, city and state texts as atoms: the atom a
\* character string spells.
Text(s) ==
    CASE s = <<>> -> ""
      [] s = <<"V", "0", "0", "1">> -> "V001"
      [] s = <<"n", "a", "n">> -> "nan"
      [] OTHER -> "text"

\* str(record.get(col, '')).strip() if col else ''
OptionalText(df, i, col) ==
    IF Truthy(col) THEN CellText(df, i, col) ELSE <<>>

\* A whole float is held as the integer the pipeline computes with.
Number(r) == IF r.den = 1 THEN r.num ELSE r

KeepRowAnyQty(part_no, qty) ==
    /\ part_no # <<>>
    /\ Lower(part_no) \notin {<<"n", "a", "n">>, <<>>, <<"n", "u", "l", "l">>}

\* Lines 390 and 467: part_no and part_no.lower() not in ['nan', '', 'null']
\* and qty >= 0; NaN >= 0 is False.
KeepRow(part_no, qty) ==
    /\ part_no # <<>>
    /\ Lower(part_no) \notin {<<"n", "a", "n">>, <<>>, <<"n", "u", "l", "l">>}
    /\ ~qty.nan
    /\ qty.val.num >= 0

\* Lines 387-402: the records the row appends, none when it is skipped.
PfepRow(df, i, mapped) ==
    LET part_no == CellText(df, i, mapped.part_no)
        rm_qty == safe_float_convert(Get(df, i, mapped.rm_qty, IntVal(0)))
    IN  IF KeepRow(part_no, rm_qty)
        THEN <<PfepItem(part_no,
                        OptionalText(df, i, mapped.description),
                        Number(rm_qty.val),
                        Text(OptionalText(df, i, mapped.vendor_code)),
                        Text(OptionalText(df, i, mapped.vendor_name)),
                        Text(OptionalText(df, i, mapped.city)),
                        Text(OptionalText(df, i, mapped.state)))>>
        ELSE <<>>

\* Lines 464-480: an exception of safe_int_convert is caught at line 478 and
\* the row is skipped.
InventoryRow(df, i, mapped) ==
    LET part_no == CellText(df, i, mapped.part_no)
        current_qty ==
            safe_float_convert(Get(df, i, mapped.current_qty, IntVal(0)))
        stock_value ==
            IF Truthy(mapped.stock_value)
            THEN safe_int_convert(Get(df, i, mapped.stock_value, IntVal(0)))
            ELSE IntVal(0)
    IN  IF KeepRow(part_no, current_qty) /\ stock_value.kind # "raise"
        THEN <<CurrentItem(part_no,
                           OptionalText(df, i, mapped.description),
                           Number(current_qty.val),
                           stock_value.val)>>
        ELSE <<>>

StandardizeStepNoCount(acc, produced) ==
    [acc EXCEPT !.standardized_data = @ \o produced]

\* Lines 400-405 and 474-479: append the record or count the row as skipped.
StandardizeStep(acc, produced) ==
    IF produced = <<>>
    THEN [acc EXCEPT !.skipped_rows = @ + 1]
    ELSE [acc EXCEPT !.standardized_data = @ \o produced]

\* Lines 382-406: the loop over the first n rows.
RECURSIVE PfepRowsUpTo(_, _, _)
PfepRowsUpTo(df, mapped, n) ==
    IF n = 0 THEN [standardized_data |-> <<>>, skipped_rows |-> 0]
    ELSE StandardizeStep(PfepRowsUpTo(df, mapped, n - 1), PfepRow(df, n, mapped))

\* Lines 459-480
RECURSIVE InventoryRowsUpTo(_, _, _)
InventoryRowsUpTo(df, mapped, n) ==
    IF n = 0 THEN [standardized_data |-> <<>>, skipped_rows |-> 0]
    ELSE StandardizeStep(InventoryRowsUpTo(df, mapped, n - 1),
                         InventoryRow(df, n, mapped))

\* What a standardizer returns and shows: the list, the st.error (its kind
\* and the issues or fields it names), the skipped-row count and whether the
\* st.warning was shown; mapped is the local mapped_columns.
Standardized(value, error, named, skipped_rows, mapped) ==
    [value |-> value, error |-> error, named |-> named,
     skipped_rows |-> skipped_rows, warning |-> skipped_rows > 0,
     mapped |-> mapped]

Standardize(df, column_mappings, qty_key, qty_label, rows_kind) ==
    IF df.kind = "None" \/ Empty(df)
    THEN Standardized(<<>>, "", <<>>, 0, <<>>)
    ELSE IF ~validate_file_format(df).is_valid
    THEN Standardized(<<>>, "File Validation Error",
                      <<validate_file_format(df).message>>, 0, <<>>)
    ELSE Then(mapped_columns(column_mappings, df),
              LAMBDA mapped :
                  IF MissingRequired(mapped, qty_key, qty_label) # <<>>
                  THEN Standardized(<<>>, "Required columns not found",
                                    MissingRequired(mapped, qty_key, qty_label),
                                    0, mapped)
                  ELSE Then(IF rows_kind = "pfep"
                            THEN PfepRowsUpTo(df, mapped, Len(df.rows))
                            ELSE InventoryRowsUpTo(df, mapped, Len(df.rows)),
                            LAMBDA done :
                                Standardized(done.standardized_data, "", <<>>,
                                             done.skipped_rows, mapped)))

\* Lines 333-412
standardize_pfep_data(df) ==
    Standardize(df, PfepColumnMappings, "rm_qty", "RM IN QTY", "pfep")

\* Lines 414-485
standardize_current_inventory(df) ==
    Standardize(df, InventoryColumnMappings, "current_qty", "Current QTY",
                "inventory")

\* Column names of uploaded tables, each with the cell of the row it holds.
Column(name, role) == [name |-> name, role |-> role]

Headers ==
    {<<Column(<<"P", "a", "r", "t", " ", "N", "o">>, "part"),
       Column(<<"R", "M", " ", "I", "N", " ", "Q", "T", "Y">>, "qty"),
       Column(<<"C", "u", "r", "r", "e", "n", "t", " ", "Q", "t", "y">>, "qty"),
       Column(<<"V", "a", "l", "u", "e">>, "val")>>,
     <<Column(<<" ", "p", "a", "r", "t", "-", "n", "u", "m", "b", "e", "r", " ">>, "part"),
       Column(<<"D", "e", "s", "c", "r", "i", "p", "t", "i", "o", "n">>, "desc"),
       Column(<<"T", "a", "r", "g", "e", "t", "_", "Q", "t", "y">>, "qty"),
       Column(<<"Q", "T", "Y">>, "qty"),
       Column(<<"S", "t", "o", "c", "k", " ", "V", "a", "l", "u", "e">>, "val"),
       Column(<<"V", "e", "n", "d", "o", "r">>, "vendor")>>,
     <<Column(<<"P", "a", "r", "t", " ", " ", "N", "o">>, "part"),
       Column(<<"R", "M">>, "qty"),
       Column(<<"Q", "t", "y">>, "qty")>>,
     <<Column(<<"P", "a", "r", "t", " ", "N", "o">>, "part"),
       Column(<<"D", "e", "s", "c", "r", "i", "p", "t", "i", "o", "n">>, "desc")>>,
     <<Column(<<"C", "o", "d", "e">>, "val"),
       Column(<<"M", "a", "t", "e", "r", "i", "a", "l">>, "part"),
       Column(<<"r", "m">>, "val"),
       Column(<<"r", "m", "_", "q", "t", "y">>, "qty"),
       Column(<<"q", "u", "a", "n", "t", "i", "t", "y">>, "val"),
       Column(<<"q", "t", "y">>, "qty")>>,
     <<Column(<<"P", "A", "R", "T", "_", "N", "O">>, "val"),
       Column(<<"p", "a", "r", "t", " ", "n", "o">>, "part"),
       Column(<<"r", "m", "-", "i", "n", "-", "q", "t", "y">>, "qty"),
       Column(<<"c", "u", "r", "r", "e", "n", "t", " ", "q", "t", "y">>, "qty"),
       Column(<<"a", "m", "o", "u", "n", "t">>, "val")>>,
     <<Column(<<"P", "a", "r", "t", " ", "N", "o">>, "part")>>}

\* The cells of one row: part identifier, description, quantity, stock value
\* and vendor.
RowCells(part, desc, qty, val, vendor) ==
    [part |-> part, desc |-> desc, qty |-> qty, val |-> val, vendor |-> vendor]

Rows ==
    {RowCells(StrVal(<<"A">>), StrVal(<<"X">>), StrVal(<<"1", "0">>), StrVal(<<"1", "0", "0">>), StrVal(<<"V", "0", "0", "1", " ">>)),
     RowCells(StrVal(<<"a", " ">>), StrVal(<<>>), StrVal(<<"4">>), StrVal(<<"(", "5", ")">>), NaN),
     RowCells(StrVal(<<"N", "a", "N">>), StrVal(<<"x">>), StrVal(<<"5">>), StrVal(<<"1">>), StrVal(<<>>)),
     RowCells(NaN, StrVal(<<"x">>), StrVal(<<"7">>), StrVal(<<"1">>), StrVal(<<>>)),
     RowCells(StrVal(<<" ", "N", "U", "L", "L">>), StrVal(<<"x">>), StrVal(<<"5">>), StrVal(<<"1">>), StrVal(<<>>)),
     RowCells(StrVal(<<>>), StrVal(<<"x">>), StrVal(<<"5">>), StrVal(<<"1">>), StrVal(<<>>)),
     RowCells(StrVal(<<"B">>), StrVal(<<"y">>), StrVal(<<"-", "1">>), StrVal(<<"3", "0">>), StrVal(<<>>)),
     RowCells(StrVal(<<"B">>), StrVal(<<>>), StrVal(<<"(", "5", ")">>), StrVal(<<"-", "4">>), StrVal(<<>>)),
     RowCells(StrVal(<<"b", " ">>), StrVal(<<"x">>), StrVal(<<"n", "a", "n">>), StrVal(<<"1">>), StrVal(<<>>)),
     RowCells(StrVal(<<"B">>), StrVal(<<"x">>), StrVal(<<"5">>), StrVal(<<"n", "a", "n">>), StrVal(<<"V", "0", "0", "1">>)),
     RowCells(StrVal(<<"C">>), StrVal(<<"x">>), StrVal(<<"x">>), StrVal(<<"1", ",", "5">>), StrVal(<<>>)),
     RowCells(StrVal(<<"A">>), StrVal(<<"X">>), NaN, NaN, NaN),
     RowCells(StrVal(<<"B">>), StrVal(<<"y">>), IntVal(0), IntVal(30), StrVal(<<>>))}

Table(header, cells) ==
    DataFrame([j \in 1..Len(header) |-> header[j].name],
              [i \in 1..Len(cells) |->
                  [j \in 1..Len(header) |-> cells[i][header[j].role]]])

\* The header with a column of every role.
FullHeader == CHOOSE header \in Headers : Len(header) = 6 /\ header[6].role = "vendor"

\* Every header over at most one row, and the full header over every
\* sequence of rows.
Tables ==
    {NoneVal}
        \cup {Table(header, cells) :
                  header \in Headers, cells \in SeqsUpTo(Rows, 1)}
        \cup {Table(FullHeader, cells) : cells \in SeqsUpTo(Rows, MaxRows)}

InitStandardize ==
    /\ pc = "call"
    /\ pfep_data = <<>>
    /\ current_data = <<>>
    /\ match_result = Unset
    /\ tolerance = 30
    /\ process_result = Unset
    /\ vendor_stats = Unset
    /\ vendor_data = Unset
    /\ arg \in Tables
    /\ ret = Unset
    /\ NoSession

StandardizePfepData ==
    /\ pc = "call"
    /\ pc' = "returned"
    /\ ret' = [fn |-> "standardize_pfep_data"] @@ standardize_pfep_data(arg)
    /\ UNCHANGED <<pfep_data, current_data, match_result, tolerance,
                   process_result, vendor_stats, vendor_data, arg>>
    /\ UNCHANGED <<session_vars, locked>>

StandardizeCurrentInventory ==
    /\ pc = "call"
    /\ pc' = "returned"
    /\ ret' = [fn |-> "standardize_current_inventory"]
                  @@ standardize_current_inventory(arg)
    /\ UNCHANGED <<pfep_data, current_data, match_result, tolerance,
                   process_result, vendor_stats, vendor_data, arg>>
    /\ UNCHANGED <<session_vars, locked>>

NextStandardize ==
    \/ StandardizePfepData
    \/ StandardizeCurrentInventory

SpecStandardize == InitStandardize /\ [][NextStandardize]_vars

(***************************************************************************)
(* The session: st.session_state, the widgets that keep a value between    *)
(* runs, and one run of the script per interaction (a run that ends in     *)
(* st.rerun() is followed by the run it starts).                           *)
(* A run is run_analysis() of an EnhancedPFEPInventoryAnalyzer, the class   *)
(* that defines it, inside the try of lines 1308-1313.                     *)
(***************************************************************************)
\* Lines 236-274, the rows with whole quantities at lines 244-246.
load_sample_pfep_data ==
    <<PfepItem(<<"A", "A", "0", "1", "1", "2", "0", "1", "4", "0", "0", "0">>,
               <<"C", "o", "n", "d", "u", "i", "t", " ", "P", "i", "p", "e", " ", "F", "i", "l", "t", "e", "r", " ", "t", "o", " ", "C", "o", "m", "p", "r", "e", "s", "s", "o", "r">>,
               Number(safe_float_convert(IntVal(30)).val),
               "V002", "Vendor_B", "Delhi", "Delhi"),
      PfepItem(<<"A", "A", "0", "1", "1", "5", "1", "2", "0", "0", "0", "1">>,
               <<"H", "V", "P", "D", "U", " ", "m", "s">>,
               Number(safe_float_convert(IntVal(12)).val),
               "V004", "Vendor_D", "Bangalore", "Karnataka"),
      PfepItem(<<"A", "A", "0", "1", "1", "9", "0", "2", "0", "0", "1", "7">>,
               <<"R", "E", "A", "R", " ", "T", "U", "R", "N", " ", "I", "N", "D", "I", "C", "A", "T", "O", "R">>,
               Number(safe_float_convert(IntVal(40)).val),
               "V003", "Vendor_C", "Chennai", "Tamil Nadu")>>

\* Lines 276-303, the rows at lines 283-285.
load_sample_current_inventory ==
    <<CurrentItem(<<"A", "A", "0", "1", "1", "2", "0", "1", "4", "0", "0", "0">>,
                  <<"C", "o", "n", "d", "u", "i", "t", " ", "P", "i", "p", "e", " ", "F", "i", "l", "t", "e", "r", " ", "t", "o", " ", "C", "o", "m", "p", "r", "e", "s", "s", "o", "r">>,
                  Number(safe_float_convert(IntVal(25)).val),
                  safe_int_convert(IntVal(1248)).val),
      CurrentItem(<<"A", "A", "0", "1", "1", "5", "1", "2", "0", "0", "0", "1">>,
                  <<"H", "V", "P", "D", "U", " ", "m", "s">>,
                  Number(safe_float_convert(IntVal(18)).val),
                  safe_int_convert(IntVal(1888)).val),
      CurrentItem(<<"A", "A", "0", "1", "1", "9", "0", "2", "0", "0", "1", "7">>,
                  <<"R", "E", "A", "R", " ", "T", "U", "R", "N", " ", "I", "N", "D", "I", "C", "A", "T", "O", "R">>,
                  Number(safe_float_convert(IntVal(35)).val),
                  safe_int_convert(IntVal(1512)).val)>>

\* What a file_uploader holds: nothing, a file pd.read_csv / pd.read_excel
\* raises on, or a file read as a table.
NoFile == [kind |-> "NoFile"]

Unreadable == [kind |-> "Unreadable"]

UploadHeader ==
    <<Column(<<"P", "a", "r", "t", " ", "N", "o">>, "part"), Column(<<"R", "M", " ", "I", "N", " ", "Q", "T", "Y">>, "qty"),
      Column(<<"C", "u", "r", "r", "e", "n", "t", " ", "Q", "t", "y">>, "qty"), Column(<<"V", "a", "l", "u", "e">>, "val")>>

UnresolvedHeader ==
    <<Column(<<"P", "a", "r", "t", " ", " ", "N", "o">>, "part"), Column(<<"R", "M", " ", "I", "N", " ", "Q", "T", "Y">>, "qty"),
      Column(<<"C", "u", "r", "r", "e", "n", "t", " ", "Q", "t", "y">>, "qty"), Column(<<"V", "a", "l", "u", "e">>, "val")>>

UploadFiles ==
    {Unreadable,
     Table(UploadHeader,
           <<RowCells(StrVal(<<"A">>), StrVal(<<"X">>), StrVal(<<"1", "0">>), StrVal(<<"1", "0", "0">>), StrVal(<<>>)),
             RowCells(StrVal(<<"B">>), StrVal(<<"y">>), IntVal(0), IntVal(30), StrVal(<<>>))>>),
     Table(UploadHeader,
           <<RowCells(StrVal(<<"a", " ">>), StrVal(<<>>), StrVal(<<"4">>), StrVal(<<"(", "5", ")">>), StrVal(<<>>)),
             RowCells(StrVal(<<"C">>), StrVal(<<"x">>), StrVal(<<"x">>), StrVal(<<"1", ",", "5">>), StrVal(<<>>))>>),
     Table(UnresolvedHeader,
           <<RowCells(StrVal(<<"A">>), StrVal(<<"X">>), StrVal(<<"1", "0">>), StrVal(<<"1", "0", "0">>), StrVal(<<>>))>>)}

\* What the two standardizers return for each readable file, computed once.
StandardizedFiles ==
    {[file |-> file,
      pfep |-> standardize_pfep_data(file),
      inventory |-> standardize_current_inventory(file)] :
        file \in UploadFiles \ {Unreadable}}

StandardizedFile(file) == CHOOSE e \in StandardizedFiles : e.file = file

\* The session as one value: the variables of the model that a run of the
\* script reads and writes; outcome is the branch a Run Analysis click took.
NoEvent == [type |-> "none"]

BlankScreen(page) ==
    [page |-> page, errors |-> {}, config |-> FALSE, results |-> FALSE,
     shown_tolerance |-> 0, shown_items |-> 0, statistics |-> FALSE,
     exact |-> 0, fuzzy |-> 0, total |-> 0, match_rate |-> FromInt(0)]

\* if st.session_state.pfep_data, .current_data, .matched_data
PfepTruthy(s) == s.session_keys.pfep_data = "value" /\ s.pfep_data # <<>>

CurrentTruthy(s) ==
    s.session_keys.current_data = "value" /\ s.current_data # <<>>

MatchedTruthy(s) == s.session_keys.matched_data = "value"

\* Lines 136-141: the keys __init__ creates when they are missing;
\* current_data is not among them.
Construct(s) ==
    [s EXCEPT !.session_keys =
        [k \in DOMAIN @ |->
            IF k \in {"pfep_data", "matched_data"} /\ @[k] = "missing"
            THEN "None" ELSE @[k]]]

\* How a run ends: at st.rerun(), or at the end of the script or at the
\* exception handler of lines 1311-1313.
Rerun(s) == [s |-> s, rerun |-> TRUE]

Done(s) == [s |-> s, rerun |-> FALSE]

\* An exception leaves the interface for the handler of lines 1311-1313.
Crash(s, exc) ==
    Done([s EXCEPT !.screen.errors = @ \cup {"Application Error", exc}])

\* dict.get(key, default)
DictGet(d, key, default) == IF key \in DOMAIN d THEN d[key] ELSE default

\* Lines 1224-1304: the header and, for the admin, the match statistics.
display_analysis_results(s, user_mode) ==
    LET data == s.matched_data
        match_stats == data.match_stats
        total_parts == IF PfepTruthy(s) THEN Len(s.pfep_data) ELSE 0
    IN  [s EXCEPT
           !.screen.results = TRUE,
           !.screen.shown_tolerance = data.tolerance,
           !.screen.shown_items = Len(data.processed_data),
           !.screen.statistics = ~user_mode,
           !.screen.exact = IF user_mode THEN 0
                            ELSE DictGet(match_stats, "exact", 0),
           !.screen.fuzzy = IF user_mode THEN 0
                            ELSE DictGet(match_stats, "fuzzy", 0),
           !.screen.total = IF user_mode THEN 0
                            ELSE DictGet(match_stats, "total", 0),
           !.screen.match_rate =
               IF ~user_mode /\ total_parts > 0
               THEN Div(DictGet(match_stats, "total", 0) * 100, total_parts)
               ELSE FromInt(0)]

StoredResultsDefaultTolerance(m, p, tol) ==
    [processed_data |-> p.processed_data,
     summary_data |-> p.summary_data,
     overall_metrics |-> p.overall_metrics,
     unmatched_parts |-> m.unmatched_parts,
     match_stats |-> m.match_stats,
     tolerance |-> 30]

\* Lines 1148-1156 and 1205-1213, without the wall-clock analysis_time.
StoredResults(m, p, tol) ==
    [processed_data |-> p.processed_data,
     summary_data |-> p.summary_data,
     overall_metrics |-> p.overall_metrics,
     unmatched_parts |-> m.unmatched_parts,
     match_stats |-> m.match_stats,
     tolerance |-> tol]

StoresAlways(m) == TRUE

\* Lines 1141 and 1200: if matched_data
Stores(m) == m.matched_data # <<>>

\* Lines 1071-1088
PfepUpload(s) ==
    IF s.pfep_file.kind = "NoFile" THEN s
    ELSE IF s.pfep_file.kind = "Unreadable"
    THEN [s EXCEPT !.screen.errors = @ \cup {"Error loading PFEP file"}]
    ELSE Then(StandardizedFile(s.pfep_file).pfep,
              LAMBDA r :
                  [s EXCEPT !.pfep_data = r.value,
                            !.session_keys.pfep_data = "value",
                            !.screen.errors =
                                @ \cup (IF r.error = "" THEN {}
                                        ELSE {r.error})])

\* Lines 1099-1116
InventoryUpload(s) ==
    IF s.inventory_file.kind = "NoFile" THEN s
    ELSE IF s.inventory_file.kind = "Unreadable"
    THEN [s EXCEPT !.screen.errors = @ \cup {"Error loading inventory file"}]
    ELSE Then(StandardizedFile(s.inventory_file).inventory,
              LAMBDA r :
                  [s EXCEPT !.current_data = r.value,
                            !.session_keys.current_data = "value",
                            !.screen.errors =
                                @ \cup (IF r.error = "" THEN {}
                                        ELSE {r.error})])

\* Lines 1167-1171
AdminDisplay(s) ==
    Done(IF MatchedTruthy(s) THEN display_analysis_results(s, FALSE) ELSE s)

AfterMatchForgetting(s, m, user_mode) ==
    IF Stores(m)
    THEN IF ProcessRaises(m.matched_data, s.tolerance)
         THEN Crash([s EXCEPT !.outcome = "raised"], "ZeroDivisionError")
         ELSE Rerun([s EXCEPT
                       !.matched_data =
                           Then(process_matched_data(m.matched_data, s.tolerance),
                                LAMBDA p : StoredResults(m, p, s.tolerance)),
                       !.session_keys.matched_data = "value",
                       !.outcome = "stored"])
    ELSE Done(LET t == [s EXCEPT
                          !.screen.errors =
                              IF user_mode THEN @
                              ELSE @ \cup {"No matching data found!"},
                          !.matched_data = Unset,
                          !.session_keys.matched_data = "None",
                          !.outcome = "no_match"]
              IN  IF MatchedTruthy(t)
                  THEN display_analysis_results(t, user_mode) ELSE t)

\* Lines 1141-1161 and 1200-1216: what follows the matcher's return m; only
\* the admin is told of an empty match.
AfterMatch(s, m, user_mode) ==
    IF Stores(m)
    THEN IF ProcessRaises(m.matched_data, s.tolerance)
         THEN Crash([s EXCEPT !.outcome = "raised"], "ZeroDivisionError")
         ELSE Rerun([s EXCEPT
                       !.matched_data =
                           Then(process_matched_data(m.matched_data, s.tolerance),
                                LAMBDA p : StoredResults(m, p, s.tolerance)),
                       !.session_keys.matched_data = "value",
                       !.outcome = "stored"])
    ELSE Done(LET t == [s EXCEPT
                          !.screen.errors =
                              IF user_mode THEN @
                              ELSE @ \cup {"No matching data found!"},
                          !.outcome = "no_match"]
              IN  IF MatchedTruthy(t)
                  THEN display_analysis_results(t, user_mode) ELSE t)

\* Lines 1133-1161 and 1192-1216: the Run Analysis button was clicked.
RunAnalysisClicked(s, user_mode) ==
    IF s.session_keys.current_data = "missing"
    THEN Crash(s, "AttributeError")
    ELSE Then(match_inventory_data(s.pfep_data, s.current_data),
              LAMBDA m : AfterMatch(s, m, user_mode))

\* Lines 1118-1171: reading a missing current_data key raises AttributeError;
\* a selectbox that is not rendered loses its value.
AnalysisSection(s, ev) ==
    IF PfepTruthy(s) /\ s.session_keys.current_data = "missing"
    THEN Crash([s EXCEPT !.tolerance = 30], "AttributeError")
    ELSE IF PfepTruthy(s) /\ CurrentTruthy(s)
    THEN LET s1 == [s EXCEPT
                      !.tolerance = IF ev.type = "select_tolerance"
                                    THEN ev.tolerance ELSE @,
                      !.screen.config = TRUE]
         IN  IF ev.type = "run_analysis" THEN RunAnalysisClicked(s1, FALSE)
             ELSE AdminDisplay(s1)
    ELSE AdminDisplay([s EXCEPT !.tolerance = 30])

\* Lines 1036-1171
admin_interface(s, ev) ==
    IF ev.type = "load_sample"
    THEN Rerun([s EXCEPT
                  !.pfep_data = load_sample_pfep_data,
                  !.current_data = load_sample_current_inventory,
                  !.session_keys.pfep_data = "value",
                  !.session_keys.current_data = "value"])
    ELSE IF ev.type = "clear"
    THEN Rerun([s EXCEPT
                  !.pfep_data = <<>>,
                  !.current_data = <<>>,
                  !.matched_data = Unset,
                  !.session_keys = [pfep_data |-> "None",
                                    current_data |-> "None",
                                    matched_data |-> "None"]])
    ELSE Then(PfepUpload([s EXCEPT !.pfep_file = IF ev.type = "upload_pfep"
                                                 THEN ev.file ELSE @]),
              LAMBDA s2 :
                  Then(InventoryUpload(
                           [s2 EXCEPT !.inventory_file =
                                         IF ev.type = "upload_inventory"
                                         THEN ev.file ELSE @]),
                       LAMBDA s4 : AnalysisSection(s4, ev)))

\* Lines 1173-1222
user_interface(s, ev) ==
    LET s1 == IF ~PfepTruthy(s)
              THEN [s EXCEPT
                      !.pfep_data = load_sample_pfep_data,
                      !.current_data = load_sample_current_inventory,
                      !.session_keys.pfep_data = "value",
                      !.session_keys.current_data = "value"]
              ELSE s
        s2 == [s1 EXCEPT
                 !.tolerance = IF ev.type = "select_tolerance"
                               THEN ev.tolerance ELSE @,
                 !.screen.config = TRUE]
    IN  IF ev.type = "run_analysis" THEN RunAnalysisClicked(s2, TRUE)
        ELSE Done(IF MatchedTruthy(s2)
                  THEN display_analysis_results(s2, TRUE) ELSE s2)

DeletedRoleOnly(s) ==
    [s EXCEPT !.user_role = "None",
              !.tolerance = 30,
              !.pfep_file = NoFile,
              !.inventory_file = NoFile]

\* Lines 204-208: every key of the session is deleted, the widgets' too.
Deleted(s) ==
    [s EXCEPT !.user_role = "None",
              !.session_keys = [pfep_data |-> "missing",
                                current_data |-> "missing",
                                matched_data |-> "missing"],
              !.pfep_data = <<>>,
              !.current_data = <<>>,
              !.matched_data = Unset,
              !.tolerance = 30,
              !.pfep_file = NoFile,
              !.inventory_file = NoFile]

\* Lines 1019-1034 after the constructor, with authenticate_user (lines
\* 153-208): one run of the script on the interaction ev.
RunScript(s, ev) ==
    LET s0 == Construct(s)
    IN  IF s0.user_role = "None"
        THEN IF ev.type = "login_admin"
             THEN Rerun([s0 EXCEPT !.user_role = "Admin"])
             ELSE IF ev.type = "login_user"
             THEN Rerun([s0 EXCEPT !.user_role = "User"])
             ELSE Done([s0 EXCEPT
                          !.screen =
                              [BlankScreen("login") EXCEPT
                                 !.errors = IF ev.type = "login_bad"
                                            THEN {"Invalid password"}
                                            ELSE {}],
                          !.tolerance = 30,
                          !.pfep_file = NoFile,
                          !.inventory_file = NoFile])
        ELSE IF ev.type = "logout" THEN Rerun(Deleted(s0))
        ELSE IF s0.user_role = "Admin"
        THEN admin_interface([s0 EXCEPT !.screen = BlankScreen("admin")], ev)
        ELSE user_interface([s0 EXCEPT !.screen = BlankScreen("user"),
                                       !.pfep_file = NoFile,
                                       !.inventory_file = NoFile], ev)

\* The run an interaction triggers and, when it ends in st.rerun(), the run
\* that follows it.
Run(s, ev) ==
    Then(RunScript([s EXCEPT !.outcome = ""], ev),
         LAMBDA first :
             IF first.rerun
             THEN [RunScript(first.s, NoEvent).s
                      EXCEPT !.outcome = first.s.outcome]
             ELSE first.s)

\* The session the variables hold.
Session ==
    [user_role |-> user_role, session_keys |-> session_keys,
     pfep_data |-> pfep_data, current_data |-> current_data,
     matched_data |-> matched_data, tolerance |-> tolerance,
     pfep_file |-> pfep_file, inventory_file |-> inventory_file,
     screen |-> screen, outcome |-> ""]

\* A browser session before the first run of the script.
Fresh ==
    [user_role |-> "None",
     session_keys |-> [pfep_data |-> "missing", current_data |-> "missing",
                       matched_data |-> "missing"],
     pfep_data |-> <<>>, current_data |-> <<>>, matched_data |-> Unset,
     tolerance |-> 30, pfep_file |-> NoFile, inventory_file |-> NoFile,
     screen |-> BlankScreen("login"), outcome |-> ""]

Unlocked == [pfep_data |-> FALSE, current_data |-> FALSE]

InitSession ==
    /\ pc = "session"
    /\ match_result = Unset
    /\ process_result = Unset
    /\ vendor_stats = Unset
    /\ vendor_data = Unset
    /\ arg = Unset
    /\ ret = Unset
    /\ \E s \in {Run(Fresh, NoEvent)} :
           /\ user_role = s.user_role
           /\ session_keys = s.session_keys
           /\ pfep_data = s.pfep_data
           /\ current_data = s.current_data
           /\ matched_data = s.matched_data
           /\ tolerance = s.tolerance
           /\ pfep_file = s.pfep_file
           /\ inventory_file = s.inventory_file
           /\ screen = s.screen
    /\ event = [run_analysis |-> ""]
    /\ locked = Unlocked

\* The script runs on the interaction ev.
Interact(ev) ==
    \E s \in {Run(Session, ev)} :
        /\ user_role' = s.user_role
        /\ session_keys' = s.session_keys
        /\ pfep_data' = s.pfep_data
        /\ current_data' = s.current_data
        /\ matched_data' = s.matched_data
        /\ tolerance' = s.tolerance
        /\ pfep_file' = s.pfep_file
        /\ inventory_file' = s.inventory_file
        /\ screen' = s.screen
        /\ event' = [run_analysis |-> s.outcome]
        /\ UNCHANGED <<pc, match_result, process_result, vendor_stats,
                       vendor_data, call_vars, locked>>

\* Lines 170-181: Login with the password, or Demo.
Login ==
    /\ screen.page = "login"
    /\ Interact([type |-> "login_admin"])

\* Lines 170-176: Login with another password.
LoginInvalidPassword ==
    /\ screen.page = "login"
    /\ Interact([type |-> "login_bad"])

\* Lines 183-187
EnterAsUser ==
    /\ screen.page = "login"
    /\ Interact([type |-> "login_user"])

\* Lines 204-208
Logout ==
    /\ screen.page \in {"admin", "user"}
    /\ Interact([type |-> "logout"])

\* Lines 1045-1049
LoadSampleData ==
    /\ screen.page = "admin"
    /\ Interact([type |-> "load_sample"])

\* Lines 1051-1056
ClearAllData ==
    /\ screen.page = "admin"
    /\ Interact([type |-> "clear"])

\* Lines 1064-1088: a file is put into, or taken out of, the PFEP uploader.
UploadPfepFile ==
    /\ screen.page = "admin"
    /\ \E file \in UploadFiles \cup {NoFile} :
          /\ file # pfep_file
          /\ Interact([type |-> "upload_pfep", file |-> file])

\* Lines 1092-1116
UploadInventoryFile ==
    /\ screen.page = "admin"
    /\ \E file \in UploadFiles \cup {NoFile} :
          /\ file # inventory_file
          /\ Interact([type |-> "upload_inventory", file |-> file])

\* Lines 1124-1130 and 1184-1190
SelectTolerance ==
    /\ screen.config
    /\ \E t \in Tolerances :
          /\ t # tolerance
          /\ Interact([type |-> "select_tolerance", tolerance |-> t])

\* Lines 1133 and 1192
RunAnalysis ==
    /\ screen.config
    /\ Interact([type |-> "run_analysis"])

NextSession ==
    \/ Login
    \/ LoginInvalidPassword
    \/ EnterAsUser
    \/ Logout
    \/ LoadSampleData
    \/ ClearAllData
    \/ UploadPfepFile
    \/ UploadInventoryFile
    \/ SelectTolerance
    \/ RunAnalysis

SpecSession == InitSession /\ [][NextSession]_vars

(***************************************************************************)
(* The advisory lock of the specification: a flag per dataset that an      *)
(* administrator sets and clears.  The data management of lines 1043-1116  *)
(* runs beside it.                                                         *)
(***************************************************************************)
Datasets == {"pfep_data", "current_data"}

Lock(dataset) ==
    /\ screen.page = "admin"
    /\ ~locked[dataset]
    /\ locked' = [locked EXCEPT ![dataset] = TRUE]
    /\ UNCHANGED <<pipeline_vars, call_vars, session_vars>>

Unlock(dataset) ==
    /\ screen.page = "admin"
    /\ locked[dataset]
    /\ locked' = [locked EXCEPT ![dataset] = FALSE]
    /\ UNCHANGED <<pipeline_vars, call_vars, session_vars>>

NextLock ==
    \/ Login
    \/ LoadSampleData
    \/ ClearAllData
    \/ UploadPfepFile
    \/ UploadInventoryFile
    \/ \E dataset \in Datasets : Lock(dataset)
    \/ \E dataset \in Datasets : Unlock(dataset)

SpecLock == InitSession /\ [][NextLock]_vars

(***************************************************************************)
(* The file run as the main program (lines 1306-1313), beside the workflow *)
(* entered at run_analysis.                                                *)
(***************************************************************************)
\* The names bound at module level when the main block runs: the imports,
\* logger and the class.
ModuleNames ==
    {"st", "pd", "plt", "sns", "np", "datetime", "timedelta", "io", "base64",
     "Figure", "px", "go", "make_subplots", "hashlib", "logging", "logger",
     "EnhancedPFEPInventoryAnalyzer"}

\* Lines 1307-1313: the name at line 1309 is looked up before anything is
\* constructed or rendered; a widget that is not rendered loses its value.
MainBlock(s, ev) ==
    IF "PFEPInventoryAnalyzer" \in ModuleNames
    THEN Run(s, ev)
    ELSE [s EXCEPT
            !.screen = [BlankScreen("none") EXCEPT
                          !.errors = {"Application Error", "NameError"}],
            !.tolerance = 30,
            !.pfep_file = NoFile,
            !.inventory_file = NoFile]

RunAsMain ==
    /\ \E s \in {MainBlock(Session, NoEvent)} :
          /\ user_role' = s.user_role
          /\ session_keys' = s.session_keys
          /\ pfep_data' = s.pfep_data
          /\ current_data' = s.current_data
          /\ matched_data' = s.matched_data
          /\ tolerance' = s.tolerance
          /\ pfep_file' = s.pfep_file
          /\ inventory_file' = s.inventory_file
          /\ screen' = s.screen
    /\ pc' = "main"
    /\ event' = [run_analysis |-> ""]
    /\ UNCHANGED <<match_result, process_result, vendor_stats, vendor_data,
                   call_vars, locked>>

NextMain ==
    \/ RunAsMain
    \/ Login
    \/ LoginInvalidPassword
    \/ EnterAsUser
    \/ Logout
    \/ LoadSampleData
    \/ ClearAllData
    \/ UploadPfepFile
    \/ UploadInventoryFile

SpecMain == InitSession /\ [][NextMain]_vars

(***************************************************************************)
(* Claims.                                                                 *)
(***************************************************************************)
Processed == process_result.processed_data

\* C1: for target_qty > 0 the status is one of the three statuses, and it is
\* Within Norms iff |v| <= tolerance, Excess Inventory iff v > tolerance and
\* Short Inventory iff v < -tolerance, with v = (on_hand - target) / target * 100
\* (stated on integers: v <= t iff (on_hand - target) * 100 <= t * target).
C1_ClassificationRule ==
    pc = "processed" =>
        \A i \in 1..Len(Processed) :
            LET p == Processed[i]
                scaled == (p.Current_QTY - p.RM_IN_QTY) * 100
                bound == tolerance * p.RM_IN_QTY
            IN  p.RM_IN_QTY > 0 =>
                  /\ p.Status \in Statuses
                  /\ p.Status = "Within Norms" <=> Abs(scaled) <= bound
                  /\ p.Status = "Excess Inventory" <=> scaled > bound
                  /\ p.Status = "Short Inventory" <=> scaled < -bound

\* A variance exactly on the tolerance (12 against 10 at 20 %) is Within Norms.
C1_Witness ==
    /\ pc = "processed"
    /\ tolerance = 20
    /\ Len(Processed) = 1
    /\ Processed[1].Current_QTY = 12
    /\ Processed[1].RM_IN_QTY = 10
    /\ Processed[1].Status = "Within Norms"

\* C2: with target_qty = 0 the variance percent is 0 and the status is Within
\* Norms for every on-hand quantity and tolerance, and no division by zero
\* occurs (process_matched_data never raises).
C2_ZeroTargetGuard ==
    /\ pc # "error"
    /\ pc = "processed" =>
          \A i \in 1..Len(Processed) :
              Processed[i].RM_IN_QTY = 0 =>
                  /\ Processed[i].Variance_Percent = FromInt(0)
                  /\ Processed[i].Status = "Within Norms"

\* Zero target, stock on hand, the tightest tolerance.
C2_Witness ==
    /\ pc = "processed"
    /\ tolerance = 0
    /\ Len(Processed) = 1
    /\ Processed[1].RM_IN_QTY = 0
    /\ Processed[1].Current_QTY > 0
    /\ Processed[1].Status = "Within Norms"

\* Equality of part numbers and descriptions as the claims state it: after
\* trimming, ignoring case.
SameText(s, t) == Upper(Strip(s)) = Upper(Strip(t))

SamePart(r, q) == SameText(r.Part_No, q.Part_No)

SamePartAndDescription(r, q) ==
    SameText(r.Part_No, q.Part_No) /\ SameText(r.Description, q.Description)

PfepRange == {pfep_data[i] : i \in 1..Len(pfep_data)}

\* The match kind the policy gives an inventory record.
PolicyKind(r) ==
    IF \E q \in PfepRange : SamePartAndDescription(r, q) THEN "exact"
    ELSE IF \E q \in PfepRange : SamePart(r, q) THEN "part_only"
    ELSE "none"

PolicyMatched(r) == PolicyKind(r) # "none"

PolicyUnmatched(r) == PolicyKind(r) = "none"

\* C3: an inventory record with a reference record of the same part_id and
\* description is matched 'exact'; otherwise, with one of the same part_id,
\* 'part_only'; otherwise it goes to the unmatched list and yields no matched
\* record.  Exact is preferred over part_only.
C3_MatchingPolicy ==
    pc = "matched" =>
        LET md == match_result.matched_data
            expected == SelectSeq(current_data, PolicyMatched)
        IN  /\ Len(md) = Len(expected)
            /\ \A k \in 1..Len(md) :
                  /\ md[k].Part_No = expected[k].Part_No
                  /\ md[k].Current_QTY = expected[k].Current_QTY
                  /\ md[k].Match_Type = PolicyKind(expected[k])
            /\ match_result.unmatched_parts =
                  SelectSeq(current_data, PolicyUnmatched)

\* An exact match although the last reference record of that part has another
\* description, next to a part_only match.
C3_Witness ==
    /\ pc = "matched"
    /\ Len(pfep_data) = 2
    /\ SamePart(pfep_data[1], pfep_data[2])
    /\ ~SameText(pfep_data[1].Description, pfep_data[2].Description)
    /\ Len(match_result.matched_data) = 2
    /\ match_result.matched_data[1].Match_Type = "exact"
    /\ SameText(match_result.matched_data[1].Description, pfep_data[1].Description)
    /\ match_result.matched_data[2].Match_Type = "part_only"

\* Positions of the reference records with the part number of matched record m.
SamePartPositions(m) ==
    {i \in 1..Len(pfep_data) : SamePart(pfep_data[i], m)}

Min(S) == CHOOSE x \in S : \A y \in S : x <= y

Max(S) == CHOOSE x \in S : \A y \in S : x >= y

CarriesReference(m, q) ==
    /\ m.RM_IN_QTY = q.RM_IN_QTY
    /\ m.Vendor_Code = q.Vendor_Code
    /\ m.Vendor_Name = q.Vendor_Name
    /\ m.City = q.City
    /\ m.State = q.State

\* C4 as stated: a part_only match is joined to the FIRST reference record
\* with that part_id.
C4_PartOnlyFirst ==
    pc = "matched" =>
        \A k \in 1..Len(match_result.matched_data) :
            LET m == match_result.matched_data[k]
            IN  m.Match_Type = "part_only" =>
                  CarriesReference(m, pfep_data[Min(SamePartPositions(m))])

\* C4 amended: a part_only match is joined to the LAST reference record
\* with that part_id, in reference-table order.
C4_PartOnlyLast ==
    pc = "matched" =>
        \A k \in 1..Len(match_result.matched_data) :
            LET m == match_result.matched_data[k]
            IN  m.Match_Type = "part_only" =>
                  CarriesReference(m, pfep_data[Max(SamePartPositions(m))])

\* A part_only match with two candidate reference records of different targets.
C4_Witness ==
    /\ pc = "matched"
    /\ \E k \in 1..Len(match_result.matched_data) :
          LET m == match_result.matched_data[k]
          IN  /\ m.Match_Type = "part_only"
              /\ Cardinality(SamePartPositions(m)) = 2
              /\ pfep_data[Min(SamePartPositions(m))].RM_IN_QTY #
                    pfep_data[Max(SamePartPositions(m))].RM_IN_QTY

InventoryFields(m) ==
    [Part_No |-> m.Part_No, Current_QTY |-> m.Current_QTY,
     Stock_Value |-> m.Stock_Value]

\* The records of seq at the positions in S, in order.
RECURSIVE Pick(_, _, _)
Pick(seq, S, n) ==
    IF n = 0 THEN <<>>
    ELSE IF n \in S THEN Append(Pick(seq, S, n - 1), seq[n])
    ELSE Pick(seq, S, n - 1)

CountType(md, t) == Cardinality({k \in 1..Len(md) : md[k].Match_Type = t})

\* C5: every inventory record lands in exactly one of matched_data and
\* unmatched_parts, both in inventory order, and the stats count them:
\* exact + part_only = len(matched_data), no_match = len(unmatched_parts),
\* exact + part_only + no_match = len(inventory).
C5_PartitionAndStats ==
    pc = "matched" =>
        LET md == match_result.matched_data
            um == match_result.unmatched_parts
            st == match_result.match_stats
            n == Len(current_data)
        IN  /\ \E S \in SUBSET (1..n) :
                  /\ [k \in 1..Len(md) |-> InventoryFields(md[k])] =
                        [k \in 1..Len(Pick(current_data, S, n)) |->
                            InventoryFields(Pick(current_data, S, n)[k])]
                  /\ um = Pick(current_data, (1..n) \ S, n)
            /\ st.exact = CountType(md, "exact")
            /\ st.part_only = CountType(md, "part_only")
            /\ st.exact + st.part_only = Len(md)
            /\ st.no_match = Len(um)
            /\ st.exact + st.part_only + st.no_match = n

\* One record matched by part only, one not matched at all.
C5_Witness ==
    /\ pc = "matched"
    /\ Len(current_data) = 2
    /\ match_result.match_stats.part_only = 1
    /\ match_result.match_stats.no_match = 1

NotInInventory(q) ==
    \A j \in 1..Len(current_data) : ~SamePart(q, current_data[j])

\* C6: the matcher also returns unmatched_reference, the reference records
\* whose part_id appears in no inventory record.
C6_UnmatchedReference ==
    pc = "matched" =>
        /\ "unmatched_reference" \in DOMAIN match_result
        /\ match_result.unmatched_reference = SelectSeq(pfep_data, NotInInventory)

\* C7: every result's variance_absolute is on_hand_qty - target_qty, also
\* when target_qty = 0.
C7_AbsoluteVariance ==
    pc = "processed" =>
        \A i \in 1..Len(Processed) :
            Processed[i].Variance_Absolute =
                Processed[i].Current_QTY - Processed[i].RM_IN_QTY

WithStatus(s) == {i \in 1..Len(Processed) : Processed[i].Status = s}

\* Sum of the stock values at the positions in S.
RECURSIVE ValueOfPositions(_)
ValueOfPositions(S) ==
    IF S = {} THEN 0
    ELSE LET i == CHOOSE x \in S : TRUE
         IN  Processed[i].Stock_Value + ValueOfPositions(S \ {i})

\* C8: the summary has exactly the three status keys; each status' count is
\* the number of results with that status and its value the sum of their
\* stock values; the counts add up to total_parts and the values to
\* total_stock_value.
C8_StatusRollup ==
    pc = "processed" =>
        LET sd == process_result.summary_data
            om == process_result.overall_metrics
        IN  /\ DOMAIN sd = Statuses
            /\ \A s \in Statuses :
                  /\ sd[s].count = Cardinality(WithStatus(s))
                  /\ sd[s].value = ValueOfPositions(WithStatus(s))
            /\ sd["Within Norms"].count + sd["Excess Inventory"].count
                  + sd["Short Inventory"].count = om.total_parts
            /\ sd["Within Norms"].value + sd["Excess Inventory"].value
                  + sd["Short Inventory"].value = om.total_stock_value

\* Two results of one status with value, and a status no result has.
C8_Witness ==
    /\ pc = "processed"
    /\ \E s \in Statuses :
          /\ process_result.summary_data[s].count = 2
          /\ process_result.summary_data[s].value > 100
    /\ \E s \in Statuses : process_result.summary_data[s].count = 0

\* C9: total_parts is the number of results, one per matched record;
\* overall_variance_percent is (sum on_hand - sum target) / sum target * 100
\* when the sum of targets is non-zero and 0 when it is zero; avg_variance is
\* 0 for no results; nothing divides by zero.
C9_OverallMetrics ==
    /\ pc # "error"
    /\ pc = "processed" =>
          LET om == process_result.overall_metrics
              md == match_result.matched_data
              sum_target == Sum(RmQtys(md))
              sum_on_hand == Sum(CurrentQtys(md))
              ovp == om.overall_variance_percent
          IN  /\ om.total_parts = Len(Processed)
              /\ Len(Processed) = Len(md)
              /\ ovp.den > 0
              /\ sum_target # 0 =>
                    ovp.num * sum_target = (sum_on_hand - sum_target) * 100 * ovp.den
              /\ sum_target = 0 => ovp.num = 0
              /\ Processed = <<>> => om.avg_variance = FromInt(0)

\* Results with stock on hand whose targets add up to zero.
C9_Witness ==
    /\ pc = "processed"
    /\ Len(Processed) = 2
    /\ process_result.overall_metrics.total_rm_qty = 0
    /\ process_result.overall_metrics.total_current_qty > 0
    /\ process_result.overall_metrics.overall_variance_percent = FromInt(0)

VendorKeyOfClaim(p) ==
    IF p.Vendor_Name # "" THEN p.Vendor_Name
    ELSE IF p.Vendor_Code # "" THEN p.Vendor_Code
    ELSE "Unknown"

RECURSIVE TotalParts(_, _)
TotalParts(stats, keys) ==
    IF keys = {} THEN 0
    ELSE LET k == CHOOSE x \in keys : TRUE
         IN  stats[k].total_parts + TotalParts(stats, keys \ {k})

\* C10: in the per-vendor rollup every result is grouped under its
\* vendor_name, else its vendor_code, else "Unknown", never under the empty
\* string; the per-vendor total_parts add up to the global total_parts.
C10_VendorKey ==
    pc = "reported" =>
        /\ "" \notin DOMAIN vendor_stats
        /\ DOMAIN vendor_stats = {VendorKeyOfClaim(Processed[i]) : i \in 1..Len(Processed)}
        /\ \A v \in DOMAIN vendor_stats :
              vendor_stats[v].total_parts =
                  Cardinality({i \in 1..Len(Processed) :
                                  VendorKeyOfClaim(Processed[i]) = v})
        /\ TotalParts(vendor_stats, DOMAIN vendor_stats) =
              process_result.overall_metrics.total_parts

\* C16: the coercion helpers never raise and return a number: 0 for a missing,
\* NaN or empty source, and the negated inner number for a source that is a
\* number in parentheses.
ParenDigits(v) ==
    /\ v.kind = "str"
    /\ Len(v.s) >= 3
    /\ v.s[1] = "("
    /\ v.s[Len(v.s)] = ")"
    /\ \A i \in 2..(Len(v.s) - 1) : IsDigit(v.s[i])

InnerNumber(v) == DigitsValue(SubSeq(v.s, 2, Len(v.s) - 1))

NumberIs(v, n) ==
    \/ v.kind = "int" /\ v.val = n
    \/ v.kind = "float" /\ ~v.nan /\ v.val = FromInt(n)

C16_CoercionNeverRaises ==
    pc = "returned" =>
        /\ ret.value.kind \in {"float", "int"}
        /\ ret.value.kind = "float" => ~ret.value.nan
        /\ (IsNa(arg) \/ (arg.kind = "str" /\ arg.s = <<>>)) =>
              NumberIs(ret.value, 0)
        /\ ParenDigits(arg) => NumberIs(ret.value, -InnerNumber(arg))

Standardizers == {"standardize_pfep_data", "standardize_current_inventory"}

\* A standardizer has returned from a table that passed validate_file_format.
Validated ==
    /\ pc = "returned"
    /\ ret.fn \in Standardizers
    /\ arg.kind = "DataFrame"
    /\ ~Empty(arg)
    /\ ret.error # "File Validation Error"

RequiredFields ==
    IF ret.fn = "standardize_pfep_data" THEN {"part_no", "rm_qty"}
    ELSE {"part_no", "current_qty"}

RequiredLabel(field) ==
    CASE field = "part_no" -> "Part Number"
      [] field = "rm_qty" -> "RM IN QTY"
      [] field = "current_qty" -> "Current QTY"

Unresolved == {f \in RequiredFields : ret.mapped[f].kind = "None"}

ColumnMappingsOf(fn) ==
    IF fn = "standardize_pfep_data" THEN PfepColumnMappings
    ELSE InventoryColumnMappings

Separators == {" ", "-"}

\* Lower-cased and trimmed, every space and every hyphen replaced by "_".
RECURSIVE ReplaceEach(_)
ReplaceEach(s) ==
    IF s = <<>> THEN <<>>
    ELSE <<IF Head(s) \in Separators THEN "_" ELSE Head(s)>>
            \o ReplaceEach(Tail(s))

NormalizedEach(name) == ReplaceEach(Strip(Lower(name)))

\* Lower-cased and trimmed, every run of spaces and hyphens replaced by one "_".
RECURSIVE CollapseRuns(_)
CollapseRuns(s) ==
    IF s = <<>> THEN <<>>
    ELSE IF Head(s) \in Separators
    THEN IF Tail(s) # <<>> /\ Head(Tail(s)) \in Separators
         THEN CollapseRuns(Tail(s))
         ELSE <<"_">> \o CollapseRuns(Tail(s))
    ELSE <<Head(s)>> \o CollapseRuns(Tail(s))

NormalizedCollapsed(name) == CollapseRuns(Strip(Lower(name)))

\* The column names of the table under a normalization.
NormedColumns(Norm(_)) == [j \in 1..Len(arg.columns) |-> Norm(arg.columns[j])]

\* The positions of the aliases that equal some column name, and the columns
\* equal to an alias, under a normalization.
AliasHits(Norm(_), normed, aliases) ==
    {k \in 1..Len(aliases) :
        \E n \in {Norm(aliases[k])} : \E j \in DOMAIN normed : normed[j] = n}

ColumnsOf(Norm(_), normed, alias) ==
    {j \in DOMAIN normed : normed[j] = Norm(alias)}

\* C14 (as stated): names are compared after lower-casing, trimming and
\* collapsing each run of spaces and hyphens to one underscore; a field maps to
\* a column matched by the first alias that equals a column name, and to None
\* when no alias does.
C14_AliasResolution ==
    Validated =>
        \A normed \in {NormedColumns(NormalizedCollapsed)} :
        \A key \in DOMAIN ret.mapped :
        \A aliases \in {ColumnMappingsOf(ret.fn)[key]} :
        \A hits \in {AliasHits(NormalizedCollapsed, normed, aliases)} :
            IF hits = {} THEN ret.mapped[key].kind = "None"
            ELSE /\ ret.mapped[key].kind = "str"
                 /\ \E j \in ColumnsOf(NormalizedCollapsed, normed,
                                       aliases[Min(hits)]) :
                       ret.mapped[key].s = arg.columns[j]

\* C14 (amended): every space and every hyphen becomes one underscore, runs
\* are not collapsed; a field maps to the last column matched by the first
\* alias that equals a column name, and to None when no alias does.
C14_AliasResolutionEach ==
    Validated =>
        \A normed \in {NormedColumns(NormalizedEach)} :
        \A key \in DOMAIN ret.mapped :
        \A aliases \in {ColumnMappingsOf(ret.fn)[key]} :
        \A hits \in {AliasHits(NormalizedEach, normed, aliases)} :
            IF hits = {} THEN ret.mapped[key].kind = "None"
            ELSE /\ ret.mapped[key].kind = "str"
                 /\ ret.mapped[key].s =
                       arg.columns[Max(ColumnsOf(NormalizedEach, normed,
                                                 aliases[Min(hits)]))]

C14_Witness ==
    /\ Validated
    /\ ret.fn = "standardize_pfep_data"
    /\ \E j \in 1..Len(arg.columns) : arg.columns[j] = <<"C", "o", "d", "e">>
    /\ ret.mapped.part_no = StrVal(<<"M", "a", "t", "e", "r", "i", "a", "l">>)
    /\ ret.mapped.rm_qty = StrVal(<<"r", "m", "_", "q", "t", "y">>)
    /\ ret.mapped.vendor_name.kind = "None"

\* The text of the part identifier cell of row i is empty or a null sentinel.
PartColumn == CHOOSE j \in 1..Len(arg.columns) : arg.columns[j] = ret.mapped.part_no.s

SentinelRow(i) ==
    Lower(Strip(PyStr(arg.rows[i][PartColumn])))
        \in {<<>>, <<"n", "a", "n">>, <<"n", "u", "l", "l">>}

SentinelRows == {i \in 1..Len(arg.rows) : SentinelRow(i)}

SentinelText(part_no) ==
    Lower(Strip(part_no)) \in {<<>>, <<"n", "a", "n">>, <<"n", "u", "l", "l">>}

C17_QuantityNonNegative ==
    (pc = "returned" /\ ret.fn \in Standardizers) =>
        \A k \in 1..Len(ret.value) :
            IF ret.fn = "standardize_pfep_data"
            THEN ret.value[k].RM_IN_QTY >= 0
            ELSE ret.value[k].Current_QTY >= 0

\* A row with the quantity -1 next to a row that became a record.
C17_Witness ==
    /\ Validated
    /\ ret.fn = "standardize_pfep_data"
    /\ ret.error = ""
    /\ \E i \in 1..Len(arg.rows), j \in 1..Len(arg.columns) :
          arg.rows[i][j] = StrVal(<<"-", "1">>)
    /\ Len(ret.value) = 1
    /\ ret.skipped_rows = 1

\* C18: every record of standardize_current_inventory has an integer
\* Stock_Value >= 0, and Stock_Value = 0 when no stock value column resolved.
C18_StockValueNonNegative ==
    (pc = "returned" /\ ret.fn = "standardize_current_inventory") =>
        \A k \in 1..Len(ret.value) :
            /\ ret.value[k].Stock_Value \in Nat
            /\ ret.mapped.stock_value.kind = "None" =>
                  ret.value[k].Stock_Value = 0

\* The part ids of a standardized table, as the matcher compares them.
PartIds(items) == {Upper(Strip(items[i].Part_No)) : i \in 1..Len(items)}

Overlap == PartIds(pfep_data) \cap PartIds(current_data)

\* C11: a Run Analysis produces and stores results if and only if some
\* inventory part id equals, without regard to case, a reference part id;
\* the administrator is told "No matching data found!" exactly when there
\* is no such part.
C11_ReadyIffOverlap ==
    event.run_analysis # "" =>
        /\ event.run_analysis = "stored" <=> Overlap # {}
        /\ event.run_analysis = "stored" =>
               /\ matched_data # Unset
               /\ Len(matched_data.processed_data) > 0
        /\ screen.page = "admin" =>
               ("No matching data found!" \in screen.errors <=> Overlap = {})

\* Results are stored although a reference part is missing from the
\* inventory and an inventory part is missing from the reference.
C11_Witness ==
    /\ event.run_analysis = "stored"
    /\ PartIds(pfep_data) \ PartIds(current_data) # {}
    /\ PartIds(current_data) \ PartIds(pfep_data) # {}

\* C12: after an analysis run the match rate shown to the administrator is
\* (number of matched records) / (number of reference records) * 100, and
\* is greater than 0 when a record matched.
C12_MatchRate ==
    (event.run_analysis = "stored" /\ screen.statistics) =>
        /\ screen.match_rate =
               Div(Len(matched_data.processed_data) * 100, Len(pfep_data))
        /\ screen.match_rate.num > 0

StatusesUnder(tol) ==
    \A i \in 1..Len(matched_data.processed_data) :
        matched_data.processed_data[i].Status =
            determine_status(matched_data.processed_data[i].Variance_Percent,
                             tol)

\* C20 as stated: every stored result's status is the classification of its
\* variance_percent under the currently selected tolerance.
C20_StatusTracksSelectedTolerance ==
    matched_data # Unset => StatusesUnder(tolerance)

\* C20: every stored result's status is the classification of its
\* variance_percent under the tolerance stored with the results, which is
\* the tolerance selected when Run Analysis was last clicked and the one the
\* results are displayed with.
C20_StatusTracksStoredTolerance ==
    matched_data # Unset =>
        /\ StatusesUnder(matched_data.tolerance)
        /\ screen.results => screen.shown_tolerance = matched_data.tolerance
        /\ event.run_analysis = "stored" => matched_data.tolerance = tolerance

\* Results of an earlier run are displayed after another tolerance was
\* selected, and a status differs from its classification under it.
C20_Witness ==
    /\ matched_data # Unset
    /\ screen.results
    /\ matched_data.tolerance # tolerance
    /\ ~StatusesUnder(tolerance)

Dataset(dataset) ==
    IF dataset = "pfep_data" THEN pfep_data ELSE current_data

\* C19: while a dataset is locked, no step changes it.
C19_LockedDatasetUnchanged ==
    [][\A dataset \in Datasets :
           (locked[dataset] /\ locked'[dataset]) =>
               Dataset(dataset)' = Dataset(dataset)]_vars

\* The fields of a result that do not depend on the tolerance.
Carried(p) == [f \in (DOMAIN p) \ {"Status"} |-> p[f]]

C23_GateNeverFails ==
    screen.page = "admin" =>
        /\ "AttributeError" \notin screen.errors
        /\ screen.config <=> (pfep_data # <<>> /\ current_data # <<>>)

\* C24: a run of the file as the main program renders the login prompt or a
\* dashboard, and shows the Application Error of the top-level handler only
\* when the workflow raised.
C24_MainReachesWorkflow ==
    pc = "main" =>
        /\ screen.page \in {"login", "admin", "user"}
        /\ "NameError" \notin screen.errors

\* C25: results that are stored are never empty: whenever
\* st.session_state.matched_data holds a value, processed_data has at least
\* one item and overall_metrics.total_parts is its length, so the metric
\* cards never divide by zero.
C25_StoredResultsNonEmpty ==
    session_keys.matched_data = "value" =>
        /\ matched_data # Unset
        /\ Len(matched_data.processed_data) >= 1
        /\ matched_data.overall_metrics.total_parts
               = Len(matched_data.processed_data)

C25_Witness ==
    /\ session_keys.matched_data = "value"
    /\ screen.results
    /\ Len(matched_data.processed_data) >= 1
    /\ matched_data.overall_metrics.total_parts
           = Len(matched_data.processed_data)

\* C26: a run of Run Analysis in which the matcher returns no matched record
\* leaves st.session_state.matched_data, pfep_data and current_data as they
\* were, a result stored before stays displayed, and the error message is
\* shown in the admin interface only.
C26_NoMatchChangesNothing ==
    [][event'.run_analysis = "no_match" =>
          /\ matched_data' = matched_data
          /\ pfep_data' = pfep_data
          /\ current_data' = current_data
          /\ session_keys' = session_keys
          /\ session_keys.matched_data = "value" => screen'.results
          /\ "No matching data found!" \in screen'.errors
                 <=> screen'.page = "admin"]_vars

C26_Witness ==
    /\ event.run_analysis = "no_match"
    /\ session_keys.matched_data = "value"
    /\ screen.results
    /\ "No matching data found!" \in screen.errors

\* C27: results that are stored are the results of the loaded data: whenever
\* st.session_state.matched_data holds a value, it is what matching and
\* classifying the loaded PFEP and inventory datasets at the recorded
\* tolerance gives, so an operation that replaces a dataset clears or
\* recomputes the stored results.
C27_StoredResultsOfLoadedData ==
    session_keys.matched_data = "value" =>
        \A m \in {match_inventory_data(pfep_data, current_data)} :
            /\ Stores(m)
            /\ ~ProcessRaises(m.matched_data, matched_data.tolerance)
            /\ matched_data =
                   StoredResults(m,
                                 process_matched_data(m.matched_data,
                                                      matched_data.tolerance),
                                 matched_data.tolerance)

\* C28: Logout, pressed in any logged-in state, deletes every session key:
\* the run that follows has user_role None, no PFEP data, inventory data or
\* results of the session before, and renders the login prompt and neither
\* interface; a role that is set changes through Logout only.
C28_LogoutResetsSession ==
    [][/\ Logout =>
            /\ user_role' = "None"
            /\ session_keys' = [pfep_data |-> "None",
                                current_data |-> "missing",
                                matched_data |-> "None"]
            /\ pfep_data' = <<>>
            /\ current_data' = <<>>
            /\ matched_data' = Unset
            /\ screen' = BlankScreen("login")
       /\ (user_role # "None" /\ user_role' # user_role) => Logout]_vars

C28_Witness ==
    /\ user_role # "None"
    /\ screen.page \in {"admin", "user"}
    /\ session_keys = [pfep_data |-> "value", current_data |-> "value",
                       matched_data |-> "value"]
    /\ pfep_data # <<>>
    /\ current_data # <<>>
    /\ matched_data # Unset

\* The matched record m is composed of the inventory record r and the
\* reference record q.
ComposedOf(m, r, q) ==
    /\ m.Part_No = r.Part_No
    /\ m.Current_QTY = r.Current_QTY
    /\ m.Stock_Value = r.Stock_Value
    /\ m.RM_IN_QTY = q.RM_IN_QTY
    /\ m.Vendor_Code = q.Vendor_Code
    /\ m.Vendor_Name = q.Vendor_Name
    /\ m.City = q.City
    /\ m.State = q.State
    /\ m.Description = IF r.Description # <<>> THEN r.Description
                       ELSE q.Description

\* C29: every matched record has Part_No, Current_QTY and Stock_Value of its
\* inventory record and RM_IN_QTY, Vendor_Code, Vendor_Name, City and State
\* of a reference record whose part number is the inventory record's after
\* trimming, ignoring case; its Description is the inventory description, or
\* the reference description when that is empty; process_matched_data gives
\* one result per matched record, in the same order, with these fields and
\* Match_Type unchanged.
C29_MatchedRecordComposition ==
    match_result # Unset =>
        LET md == match_result.matched_data
            joined == SelectSeq(current_data, PolicyMatched)
        IN  /\ Len(md) = Len(joined)
            /\ \A k \in 1..Len(md) :
                  \E j \in 1..Len(pfep_data) :
                      /\ SamePart(pfep_data[j], joined[k])
                      /\ ComposedOf(md[k], joined[k], pfep_data[j])
            /\ process_result # Unset =>
                  /\ Len(process_result.processed_data) = Len(md)
                  /\ \A k \in 1..Len(md) :
                        \A f \in DOMAIN md[k] :
                            process_result.processed_data[k][f] = md[k][f]

\* Two results: one with the description of its inventory record, one with
\* the description of its reference record because the inventory record has
\* none.
C29_Witness ==
    /\ pc = "processed"
    /\ Len(process_result.processed_data) = 2
    /\ Len(current_data) = 2
    /\ \E k \in 1..2 :
          /\ current_data[k].Description = <<>>
          /\ process_result.processed_data[k].Description # <<>>
    /\ \E k \in 1..2 :
          /\ current_data[k].Description # <<>>
          /\ process_result.processed_data[k].Description
                 = current_data[k].Description

====
